---- MODULE Spec2Model ----
(***************************************************************************)
(* A model of the RSS aggregator git-saaran/RSS_feed.                      *)
(*                                                                         *)
(* The repository holds two programs and three libraries:                  *)
(*   - the monolithic server of src/main.go (fetchAllNews, the memory      *)
(*     sweeper performMemoryCleanup, the WebSocket hub);                   *)
(*   - the modular server of src/unnamed/part_005 (feed.FeedManager) and   *)
(*     src/unnamed/part_007 (its main);                                    *)
(*   - the token bucket of src/pkg/ratelimit/ratelimit.go;                 *)
(*   - the expiring cache of src/unnamed/part_001 (package cache);         *)
(*   - GenerateID of src/internal/utils/utils.go.                          *)
(* The variable `binary` says which of them a behaviour is a run of.       *)
(*                                                                         *)
(* Time is a discrete clock `now`.  Durations of the source are scaled to  *)
(* ticks, keeping their order:                                             *)
(*   request timeout < sweeper interval < refresh interval < horizon.      *)
(***************************************************************************)
EXTENDS Integers, Sequences, FiniteSets, TLC

\* ------------------------------------------------------------------ bounds

\* The limiter's clock stops at MaxTime.
MaxTime == 5

\* Number of goroutines that call RateLimiter.Wait in a run of the limiter.
NumCallers == 4

\* The monolith's clock stops at EngMaxTime when no connection is made, and
\* at HubMaxTime when connections are made.
EngMaxTime == 6
HubMaxTime == 3

\* The monolith's clock stops at SlowMaxTime when peers may stall.
SlowMaxTime == 2
LateMaxTime == 9

\* The monolith's clock stops at ReadMaxTime when HTTP readers are served.
ReadMaxTime == 4

\* Number of WebSocket connections made to the monolith in a run.
NumClients == 2

\* ------------------------------------------------------- program constants

\* len(rssSources): 15 in the source, 2 here.
NumSources == 2

\* MAX_ARTICLES_PER_SOURCE: 10 in the source, 2 here.
MAX_ARTICLES_PER_SOURCE == 2

\* MAX_TOTAL_ARTICLES: 150 in the source, "15 sources x 10".
MAX_TOTAL_ARTICLES == NumSources * MAX_ARTICLES_PER_SOURCE

\* http.Client.Timeout of fetchRSSFeed (15 s): 1 tick.
FetchTimeout == 1

\* MEMORY_CLEANUP_INTERVAL (1 minute): 2 ticks.
SweepInterval == 2

\* The refresh ticker's period (5 minutes): 3 ticks.
RefreshInterval == 3

\* timeAgo's first band (1 minute): 1 tick.
MinuteBand == 1

\* calculatePriority's recency bands: 1 hour and 6 hours.
HourBand == 4
SixHourBand == 5

\* The freshness horizon (24 hours): 6 ticks.
Horizon == 6

\* The zero time.Time (lastFetchTime before the first publish).
ZeroTime == -100

\* time.Minute, the limiter's interval, in ticks (1 tick = 15 s).
RLInterval == 4

\* The rate NewRateLimiter and SetRate fall back to, which is also the
\* configured RATE_LIMIT_RPM: 60 a minute in the source, 2 per RLInterval
\* here.
DefaultRate == 2

\* The rates a limiter is created with (config.RateLimitRPM, as
\* RATE_LIMIT_RPM may set it).
RateLimits == {1, DefaultRate}

\* The largest rate, and the last instant, of the limiter under SetRate.
MaxRate == 15
RateMaxTime == 1

\* The significand of a float64: 53 binary digits.
MantissaBits == 53

\* Digits per limb in the arithmetic on significands, and the limbs that
\* a quotient is worked out to.
LimbBits == 16
DivLimbs == 5

\* cache.Cache: the keys used, the goroutines calling Get, the number of
\* Set calls, the last instant, and the duration NewCache is given.
NumKeys == 1
NumGetters == 2
MaxSets == 2
MaxParses == 2
MaxStored == 2
MaxOffset == 3
MaxLimit == 2
MaxSnapshot == 2
StatusMaxTime == 4
ParseMaxTime == 2
CacheMaxTime == 5
CacheDuration == 2

\* filterHandler: the last instant at which requests are served.
FilterMaxTime == 2

\* utils.GenerateID: the last Unix second at which it is called.
IDMaxTime == 2

\* cleanup's ticker: time.Minute, in ticks.
CleanupInterval == 3

Min(x, y) == IF x < y THEN x ELSE y

None == 0

VARIABLES
  binary,      \* which program runs: "ratelimit", "monolith", "feed" or
               \* "cache", "utils", "dates", "filter" or "news"
  now,         \* the clock (time.Now())
  \* --- ratelimit.RateLimiter
  capacity,    \* rl.capacity
  tokens,      \* rl.tokens
  lastTime,    \* rl.lastTime
  muHolder,    \* the caller that holds rl.mu across time.Sleep, or None
  wakeAt,      \* when that caller's time.Sleep may return
  callerPc,    \* per caller: "idle", "called", "sleeping", "returned"
  callTime,    \* per caller: when its pending Wait was called (-1: none)
  burst,       \* TRUE while every Wait so far was called at time 0
  retLog,      \* the times at which Wait calls returned, in order
  onlyWait,    \* TRUE while no SetRate or Reset has been made
  \* --- main.go: the store
  currentNews,   \* currentNews
  lastFetchTime, \* lastFetchTime
  liveAnalytics, \* liveAnalytics
  liveSentiment, \* liveSentiment
  \* --- main.go: fetchAllNews and the tickers of startPeriodicRefresh
  phase,         \* where fetchAllNews is: "idle", "fetching", "published",
                 \* "sending" (inside broadcastUpdate's loop)
  allNews,       \* fetchAllNews's local allNews
  task,          \* per source: "none", "running", "done"
  fetched,       \* per source: what its fetch of this cycle returned
  procTime,      \* per source: when its result was processed
  cycleStart,    \* when the running cycle started
  cycleNo,       \* how many cycles have started
  tickers,       \* TRUE once startPeriodicRefresh has created its tickers
  nextRefresh,   \* when refreshTicker fires next
  nextSweep,     \* when cleanupTicker fires next
  \* --- main.go: the WebSocket hub
  clients,       \* the keys of the clients map
  connPc,        \* per connection, where handleWebSocket is: "none",
                 \* "registered", "read", "open", "closed"
  connData,      \* per connection: the data handleWebSocket read
  inbox,         \* per connection: the messages written to it
  dropped,       \* the connections broadcastUpdate closed
  slow,          \* the connections whose peer has stopped accepting data
  bcastData,     \* broadcastUpdate's local data
  bcastPending,  \* the map entries its range loop has yet to visit
  bcastSet,      \* the clients map when the loop started
  bcastFailed,   \* the connections whose send failed in this broadcast
  nPublish,      \* how many times a cycle has replaced the store
  nBroadcast,    \* how many times broadcastUpdate has been called
  swept,         \* TRUE when the sweeper has run since the store was last
                 \* cleared or replaced
  shown,         \* the PubDates of the last publish's list, less those the
                 \* sweeper has dropped or would have dropped since
  \* --- part_005: feed.FeedManager
  fmNews,        \* fm.news
  fmLastUpdate,  \* fm.lastUpdate
  fmTotal,       \* fm.stats.TotalNewsItems
  feedError,     \* per source: FeedSource.LastError
  feedFetched,   \* per source: FeedSource.LastFetched
  feedEnabled,   \* per source: FeedSource.Enabled
  fmPhase,       \* where Start is: "idle" or "updating" (in UpdateAllFeeds)
  fmAll,         \* UpdateAllFeeds's local allNews
  fmPc,          \* per source, its goroutine: "none", "called" (in Wait),
                 \* "sleeping" (in Wait's time.Sleep), "fetching", "done"
  fmResp,        \* per source: the response its fetch of this cycle got
  fmCycle,       \* how many UpdateAllFeeds calls have started
  fmTicker,      \* TRUE once Start has created its ticker
  fmNextPoll,    \* when that ticker fires next
  \* --- part_001: cache.Cache
  cacheItems,    \* c.items: per key a CacheItem, or Absent
  getPc,         \* per goroutine in Get: "idle", "read" (item copied, read
                 \* lock released) or "deleting" (about to call Delete)
  getKey,        \* per goroutine: the key of its Get
  getItem,       \* per goroutine: the item its Get copied (Absent outside Get)
  getRes,        \* per goroutine: what its last Get returned
  nextCleanup,   \* when cleanup's ticker fires next
  storedAt,      \* per value stored so far (the n-th Set stores n): when
  \* --- utils.GenerateID
  idPrev,        \* the call of GenerateID before the last: its arguments,
                 \* its instant and its result (NoCall if none)
  idLast,        \* the last call of GenerateID
  \* --- main.go: filterHandler
  filtPc,        \* the handler: "idle" or "read" (slice header copied,
                 \* newsMutex released, range loop not yet run)
  filtQuery,     \* the query of the request being served, or of the last
  filtItems,     \* allItems as it was when the header was copied
  filtResp,      \* the last response body (NoBody if none)
  \* --- the parsers of an entry's publish timestamp
  parseLast,     \* the last call: its parser, its input, the time it
                 \* returned and whether that is the fallback (NoParse if none)
  parseLog,      \* the log: the input of every "Failed to parse date" record
  nParse,        \* how many calls have been made
  \* --- main.go: fetchRSSFeed's HTTP exchange
  httpResp,      \* per source: the response its last request got
                 \* (NoAnswer if none)
  \* --- part_005: FeedManager.GetNews
  gnNews,        \* fm.news as GetNews finds it
  gnReq,         \* the FilterOptions of the last call
  gnRes          \* what the last call returned: items and total (NoPage
                 \* if none)

rlVars == <<capacity, tokens, lastTime, muHolder, wakeAt>>
callerVars == <<callerPc, callTime, burst, retLog, onlyWait>>
storeVars == <<currentNews, lastFetchTime, liveAnalytics, liveSentiment>>
cycleVars == <<phase, allNews, task, fetched, procTime, cycleStart, cycleNo>>
tickerVars == <<tickers, nextRefresh, nextSweep>>
connVars == <<clients, connPc, connData, inbox, dropped, slow>>
bcastVars == <<bcastData, bcastPending, bcastSet, bcastFailed>>
ghostVars == <<nPublish, nBroadcast, swept, shown>>
engVars == <<storeVars, cycleVars, tickerVars, connVars, bcastVars, ghostVars>>
fmStore == <<fmNews, fmLastUpdate, fmTotal>>
fmFeeds == <<feedError, feedFetched, feedEnabled>>
fmCycleVars == <<fmPhase, fmAll, fmPc, fmResp, fmCycle>>
fmTickerVars == <<fmTicker, fmNextPoll>>
fmVars == <<fmStore, fmFeeds, fmCycleVars, fmTickerVars>>
cacheVars == <<cacheItems, getPc, getKey, getItem, getRes, nextCleanup, storedAt>>
utilVars == <<idPrev, idLast>>
handlerVars == <<filtPc, filtQuery, filtItems, filtResp>>
parseVars == <<parseLast, parseLog, nParse>>
httpVars == <<httpResp>>
newsVars == <<gnNews, gnReq, gnRes>>
auxVars == <<cacheVars, utilVars, handlerVars, parseVars, httpVars, newsVars>>
vars == <<binary, now, rlVars, callerVars, engVars, fmVars, auxVars>>

Callers == 1..NumCallers
Sources == 1..NumSources
Conns == 1..NumClients

\* -------------------------------------------------------------- RateLimiter

\* NewRateLimiter(requestsPerMinute) at time t.
NewRateLimiter(requestsPerMinute, t) ==
  LET rpm == IF requestsPerMinute <= 0 THEN DefaultRate ELSE requestsPerMinute
  IN  [capacity |-> rpm, tokens |-> rpm, lastTime |-> t]

\* The lazy refill at the head of Wait, run at time t on the limiter
\* (cap, tok, last): the limiter's (tokens, lastTime) after it.
Refill(cap, tok, last, t) ==
  LET elapsed == t - last
      tokensToAdd == (cap * elapsed) \div RLInterval
  IN  IF elapsed > RLInterval THEN <<cap, t>>
      ELSE IF tokensToAdd > 0 THEN <<Min(tok + tokensToAdd, cap), t>>
      ELSE <<tok, last>>

\* Wait, the branch that finds a token: it takes rl.mu, refills, debits one
\* token and returns, all at the instant `now`.
WaitTake ==
  LET r == Refill(capacity, tokens, lastTime, now)
  IN  /\ muHolder = None
      /\ r[1] > 0
      /\ tokens' = r[1] - 1
      /\ lastTime' = now
      /\ UNCHANGED <<capacity, muHolder, wakeAt>>

\* Wait, the branch that finds the bucket empty: it keeps rl.mu (the unlock
\* is deferred) and sleeps until lastTime + interval/capacity.
WaitSleep(c) ==
  LET r == Refill(capacity, tokens, lastTime, now)
  IN  /\ muHolder = None
      /\ r[1] <= 0
      /\ tokens' = r[1]
      /\ lastTime' = r[2]
      /\ muHolder' = c
      /\ wakeAt' = r[2] + (RLInterval \div capacity)
      /\ UNCHANGED capacity

\* Wait, after time.Sleep returned: the bucket is set to capacity - 1.
WaitWake(c) ==
  /\ muHolder = c
  /\ now >= wakeAt
  /\ lastTime' = now
  /\ tokens' = capacity - 1
  /\ muHolder' = None
  /\ UNCHANGED <<capacity, wakeAt>>

\* float64 arithmetic on the values SetRate meets.  A positive float64 is
\* [bits, frac]: a significand of at most MantissaBits bits, most
\* significant first and starting with 1, worth (bits read in base 2) /
\* 2^frac; zero is the empty significand.

\* The binary digits of a natural number (none for 0).
RECURSIVE IntBits(_)
IntBits(k) == IF k = 0 THEN <<>> ELSE Append(IntBits(k \div 2), k % 2)

\* The natural number of a sequence of binary digits.
RECURSIVE BitsInt(_)
BitsInt(b) ==
  IF b = <<>> THEN 0 ELSE 2 * BitsInt(SubSeq(b, 1, Len(b) - 1)) + b[Len(b)]

\* 2^i modulo c, by repeated squaring.
RECURSIVE Pow2Mod(_, _)
Pow2Mod(i, c) ==
  IF i = 0 THEN 1 % c
  ELSE IF i % 2 = 0 THEN LET h == Pow2Mod(i \div 2, c) IN (h * h) % c
  ELSE (2 * Pow2Mod(i - 1, c)) % c

\* A significand as numbers of LimbBits digits each, and back.
ToLimbs(b) ==
  LET k   == (Len(b) + LimbBits - 1) \div LimbBits
      pad == [i \in 1..(k * LimbBits - Len(b)) |-> 0] \o b
  IN  [j \in 1..k |->
         BitsInt(SubSeq(pad, LimbBits * (j - 1) + 1, LimbBits * j))]

LimbDigits(v) ==
  [i \in 1..(LimbBits - Len(IntBits(v))) |-> 0] \o IntBits(v)

RECURSIVE LimbsBits(_)
LimbsBits(l) ==
  IF l = <<>> THEN <<>> ELSE LimbDigits(Head(l)) \o LimbsBits(Tail(l))

FromLimbs(l) ==
  LET b == LimbsBits(l)
  IN  IF \A i \in 1..Len(b) : b[i] = 0 THEN <<>>
      ELSE LET first == CHOOSE i \in 1..Len(b) :
                          b[i] = 1 /\ \A j \in 1..(i - 1) : b[j] = 0
           IN  SubSeq(b, first, Len(b))

\* The limbs of (l read as a number) * t + carry, from limb i down.
RECURSIVE MulAddLimbs(_, _, _, _)
MulAddLimbs(l, i, t, carry) ==
  IF i = 0 THEN IF carry = 0 THEN <<>> ELSE <<carry>>
  ELSE LET v == l[i] * t + carry
       IN  Append(MulAddLimbs(l, i - 1, t, v \div (2 ^ LimbBits)),
                  v % (2 ^ LimbBits))

\* The digits of (b read in base 2) * t + a, for small naturals t and a.
MulAddBits(b, t, a) ==
  LET l == ToLimbs(b) IN FromLimbs(MulAddLimbs(l, Len(l), t, a))

\* Rounding to nearest, ties to even, of the exact value whose digits are
\* b (with frac of them after the point) followed by digits that are all 0
\* iff ~sticky, to MantissaBits significant digits.
RoundBits(b, frac, sticky) ==
  IF Len(b) <= MantissaBits THEN [bits |-> b, frac |-> frac]
  ELSE LET kept  == SubSeq(b, 1, MantissaBits)
           guard == b[MantissaBits + 1]
           rest  == sticky \/ \E i \in (MantissaBits + 2)..Len(b) : b[i] = 1
           cut   == Len(b) - MantissaBits
           up    == guard = 1 /\ (rest \/ kept[MantissaBits] = 1)
           r     == IF up THEN MulAddBits(kept, 1, 1) ELSE kept
       IN  IF Len(r) > MantissaBits
           THEN [bits |-> SubSeq(r, 1, MantissaBits), frac |-> frac - cut - 1]
           ELSE [bits |-> r, frac |-> frac - cut]

\* float64(n) / float64(c) for naturals n and c > 0 (c below 2^15), by
\* long division, LimbBits digits at a time: the digits after the first k
\* are those of (remainder left by the first k) * 2^LimbBits \div c.
Float64Div(n, c) ==
  LET Rem(k) == ((n % c) * Pow2Mod(k, c)) % c
      digits == LimbsBits([j \in 1..DivLimbs |->
                             (Rem(LimbBits * (j - 1)) * (2 ^ LimbBits)) \div c])
      q      == IntBits(n \div c)
      lead   == IF q # <<>> \/ n % c = 0 THEN 0
                ELSE (CHOOSE i \in 1..Len(digits) :
                        digits[i] = 1 /\ \A j \in 1..(i - 1) : digits[j] = 0)
                     - 1
      frac   == lead + MantissaBits + 1 - Len(q)
  IN  IF n = 0 THEN [bits |-> <<>>, frac |-> 0]
      ELSE RoundBits(q \o SubSeq(digits, lead + 1, frac), frac, Rem(frac) # 0)

\* float64(t) * x for a natural t.
Float64Mul(t, x) ==
  IF t = 0 \/ x.bits = <<>> THEN [bits |-> <<>>, frac |-> 0]
  ELSE RoundBits(MulAddBits(x.bits, t, 0), x.frac, FALSE)

\* int(x) for a float64 x >= 0 below 2^31: the fraction is cut off.
Float64ToInt(x) ==
  IF x.frac >= Len(x.bits) THEN 0
  ELSE IF x.frac >= 0 THEN BitsInt(SubSeq(x.bits, 1, Len(x.bits) - x.frac))
  ELSE BitsInt(x.bits \o [i \in 1..(0 - x.frac) |-> 0])

\* SetRate's scaling: int(float64(tokens) * (float64(rpm) / float64(cap))),
\* a negative count keeping its sign.
ScaleTokens(tok, rpm, cap) ==
  IF tok >= 0 THEN Float64ToInt(Float64Mul(tok, Float64Div(rpm, cap)))
  ELSE 0 - Float64ToInt(Float64Mul(0 - tok, Float64Div(rpm, cap)))

\* SetRate(requestsPerMinute).
\* SetRate without the default for a rate of zero or less.
SetRateNoDefault(requestsPerMinute) ==
  /\ muHolder = None
  /\ capacity' = requestsPerMinute
  /\ tokens' = IF requestsPerMinute <= 0 THEN 0
               ELSE ScaleTokens(tokens, requestsPerMinute, capacity)
  /\ UNCHANGED <<lastTime, muHolder, wakeAt>>

SetRate(requestsPerMinute) ==
  LET rpm == IF requestsPerMinute <= 0 THEN DefaultRate ELSE requestsPerMinute
  IN  /\ muHolder = None
      /\ capacity' = rpm
      /\ tokens' = ScaleTokens(tokens, rpm, capacity)
      /\ UNCHANGED <<lastTime, muHolder, wakeAt>>

\* Reset().
Reset ==
  /\ muHolder = None
  /\ tokens' = capacity
  /\ lastTime' = now
  /\ UNCHANGED <<capacity, muHolder, wakeAt>>

\* ------------------------------------------------- main.go: pure functions

\* One <item> of a fetched feed document.  Title is FALSE for an empty
\* title; Age is what parseTime yields for pubDate, as the item's age at the
\* time of the fetch; Nifty and Sentiment are what checkForNifty50 and
\* analyzeSentiment yield for its text.
Entry(title, age, nifty, sentiment, category) ==
  [Title |-> title, Age |-> age, Nifty |-> nifty, Sentiment |-> sentiment,
   Category |-> category]

\* The feed documents a source may answer with.
DocBreaking ==
  << Entry(TRUE, 0, TRUE, "Positive", "Markets"),
     Entry(TRUE, HourBand, FALSE, "Negative", ""),
     Entry(TRUE, 0, FALSE, "Positive", "Markets") >>
DocAging ==
  << Entry(TRUE, Horizon, FALSE, "Neutral", "Markets"),
     Entry(TRUE, Horizon + 1, TRUE, "Positive", "") >>
DocSparse ==
  << Entry(FALSE, 0, FALSE, "Neutral", ""),
     Entry(TRUE, SixHourBand, TRUE, "Negative", "IPO") >>

\* What fetchRSSFeed may return: (nil, err) or (&rss, nil).
FetchError == [ok |-> FALSE, items |-> <<>>]
FetchResults ==
  {FetchError} \cup {[ok |-> TRUE, items |-> d] : d \in {DocBreaking, DocAging, DocSparse}}

\* The sources that calculatePriority favours (the BS_ sources and LM).
TrustedSources == {1}

\* calculatePriority, for an item of source s aged `age` when it is scored.
calculatePriority(s, e, age) ==
    (IF e.Nifty THEN 30 ELSE 0)
  + (IF e.Sentiment = "Positive" THEN 20
     ELSE IF e.Sentiment = "Negative" THEN 15 ELSE 0)
  + (IF age < HourBand THEN 25
     ELSE IF age < SixHourBand THEN 15
     ELSE IF age < Horizon THEN 10 ELSE 0)
  + (IF s \in TrustedSources THEN 10 ELSE 0)

\* timeAgo, for an item aged `age`: "Just now", "<n>m ago", "<n>h ago" or
\* "<n>d ago", the count truncated to the unit.
timeAgo(age) ==
  IF age < MinuteBand THEN [n |-> 0, unit |-> "Just now"]
  ELSE IF age < HourBand THEN [n |-> age \div MinuteBand, unit |-> "m ago"]
  ELSE IF age < Horizon THEN [n |-> age \div HourBand, unit |-> "h ago"]
  ELSE [n |-> age \div Horizon, unit |-> "d ago"]

\* The NewsItem fetchAllNews builds from entry i of source s at time t in
\* cycle n.
NewsItem(s, i, e, t, n) ==
  [Source |-> s, Idx |-> i, PubDate |-> t - e.Age, TimeAgo |-> timeAgo(e.Age),
   HasNifty50 |-> e.Nifty, SentimentLabel |-> e.Sentiment,
   Category |-> e.Category, Priority |-> calculatePriority(s, e, e.Age), Cycle |-> n]

\* The loop of a fetch goroutine over rss.Channel.Items[i..limit], run under
\* mu at time t: acc is allNews.
RECURSIVE ProcessItems(_, _, _, _, _, _, _)
ProcessItems(acc, s, items, i, limit, t, n) ==
  IF i > limit THEN acc
  ELSE LET e == items[i] IN
       IF ~e.Title THEN ProcessItems(acc, s, items, i + 1, limit, t, n)
       ELSE IF e.Age > Horizon THEN ProcessItems(acc, s, items, i + 1, limit, t, n)
       ELSE LET acc2 == Append(acc, NewsItem(s, i, e, t, n)) IN
            IF Len(acc2) >= MAX_TOTAL_ARTICLES THEN acc2
            ELSE ProcessItems(acc2, s, items, i + 1, limit, t, n)

\* A goroutine whose failure discards what the others gathered.
TaskAppendAbort(acc, s, res, t, n) ==
  IF ~res.ok THEN <<>>
  ELSE ProcessItems(acc, s, res.items, 1,
                    Min(Len(res.items), MAX_ARTICLES_PER_SOURCE), t, n)

\* A goroutine that processes every entry of its feed.
TaskAppendNoLimit(acc, s, res, t, n) ==
  IF ~res.ok THEN acc
  ELSE ProcessItems(acc, s, res.items, 1, Len(res.items), t, n)

\* The body of a fetch goroutine once fetchRSSFeed has returned res.
TaskAppend(acc, s, res, t, n) ==
  IF ~res.ok THEN acc
  ELSE ProcessItems(acc, s, res.items, 1,
                    Min(Len(res.items), MAX_ARTICLES_PER_SOURCE), t, n)

\* allNews when the goroutines of sources 1..s have appended in that order,
\* the goroutine of source r having got res[r] and run at time t[r].
RECURSIVE CollectInOrder(_, _, _, _)
CollectInOrder(s, res, t, n) ==
  IF s = 0 THEN <<>>
  ELSE TaskAppend(CollectInOrder(s - 1, res, t, n), s, res[s], t[s], n)

\* sort.Slice's less function of fetchAllNews.
Less(a, b) ==
  IF a.Priority = b.Priority THEN a.PubDate > b.PubDate
  ELSE a.Priority > b.Priority

\* sort.Slice is not stable: it may leave q in any order that Less admits.
SortResults(q) ==
  LET n == Len(q)
      perms == {f \in [1..n -> 1..n] : \A i, j \in 1..n : i # j => f[i] # f[j]}
      sorted(p) == \A i, j \in 1..n : i < j => ~Less(p[j], p[i])
  IN  {p \in {[i \in 1..n |-> q[f[i]]] : f \in perms} : sorted(p)}

\* The tail of fetchAllNews after wg.Wait: the lists that sorting and
\* cutting may leave in allNews.
Trim(q) ==
  IF Len(q) > MAX_TOTAL_ARTICLES
  THEN {SubSeq(p, 1, MAX_TOTAL_ARTICLES) : p \in SortResults(q)}
  ELSE {q}

\* generateAnalytics.
generateAnalytics(items) ==
  [TotalArticles |-> Len(items),
   SourceCount |-> [s \in Sources |-> Len(SelectSeq(items, LAMBDA it : it.Source = s))],
   Nifty50Mentions |-> Len(SelectSeq(items, LAMBDA it : it.HasNifty50))]

\* generateSentimentData (percentages as whole numbers).
generateSentimentData(items) ==
  LET total == IF Len(items) = 0 THEN 1 ELSE Len(items)
      pos == (Len(SelectSeq(items, LAMBDA it : it.SentimentLabel = "Positive")) * 100) \div total
      neg == (Len(SelectSeq(items, LAMBDA it : it.SentimentLabel = "Negative")) * 100) \div total
      neu == (Len(SelectSeq(items, LAMBDA it : it.SentimentLabel \notin {"Positive", "Negative"})) * 100) \div total
  IN  [Positive |-> pos, Neutral |-> neu, Negative |-> neg,
       Overall |-> IF pos > neg /\ pos > neu THEN "Positive"
                   ELSE IF neg > pos /\ neg > neu THEN "Negative"
                   ELSE "Neutral"]

\* The zero values of liveAnalytics and liveSentiment.
ZeroAnalytics ==
  [TotalArticles |-> 0, SourceCount |-> [s \in Sources |-> 0], Nifty50Mentions |-> 0]
ZeroSentiment == [Positive |-> 0, Neutral |-> 0, Negative |-> 0, Overall |-> ""]

\* What a reader copies inside one newsMutex.RLock section (the NewsData of
\* handleWebSocket and broadcastUpdate).
NewsData ==
  [Items |-> currentNews, LastUpdated |-> lastFetchTime,
   Analytics |-> liveAnalytics, Sentiment |-> liveSentiment]

NoData ==
  [Items |-> <<>>, LastUpdated |-> ZeroTime,
   Analytics |-> ZeroAnalytics, Sentiment |-> ZeroSentiment]

\* A sweeper that removes nothing.
RecentKeepAll(items, t) == items

\* performMemoryCleanup's filter at time t.
\* A sweep that keeps an item published exactly 24 h ago.
RecentInclusive(items, t) == SelectSeq(items, LAMBDA it : it.PubDate >= t - Horizon)

Recent(items, t) == SelectSeq(items, LAMBDA it : it.PubDate > t - Horizon)

\* ------------------------------------------------ main.go: the processes

\* The state of the monolith when main starts.
EngStart ==
  /\ currentNews = <<>>
  /\ lastFetchTime = ZeroTime
  /\ liveAnalytics = ZeroAnalytics
  /\ liveSentiment = ZeroSentiment
  /\ phase = "idle"
  /\ allNews = <<>>
  /\ task = [s \in Sources |-> "none"]
  /\ fetched = [s \in Sources |-> FetchError]
  /\ procTime = [s \in Sources |-> 0]
  /\ cycleStart = 0
  /\ cycleNo = 0
  /\ tickers = FALSE
  /\ nextRefresh = 0
  /\ nextSweep = 0
  /\ clients = {}
  /\ connPc = [c \in Conns |-> "none"]
  /\ connData = [c \in Conns |-> NoData]
  /\ inbox = [c \in Conns |-> <<>>]
  /\ dropped = {}
  /\ slow = {}
  /\ bcastData = NoData
  /\ bcastPending = {}
  /\ bcastSet = {}
  /\ bcastFailed = {}
  /\ nPublish = 0
  /\ nBroadcast = 0
  /\ swept = FALSE
  /\ shown = <<>>

\* fetchAllNews, its head: startPeriodicRefresh calls it once at startup and
\* then on every tick of refreshTicker.  It clears currentNews under
\* newsMutex and starts one goroutine per source.
CycleStart ==
  /\ binary = "monolith"
  /\ phase = "idle"
  /\ IF tickers THEN now >= nextRefresh ELSE cycleNo = 0
  /\ currentNews' = <<>>
  /\ phase' = "fetching"
  /\ allNews' = <<>>
  /\ task' = [s \in Sources |-> "running"]
  /\ cycleStart' = now
  /\ cycleNo' = cycleNo + 1
  /\ fetched' = [s \in Sources |-> FetchError]
  /\ procTime' = [s \in Sources |-> 0]
  /\ nextRefresh' = IF tickers THEN nextRefresh + RefreshInterval ELSE nextRefresh
  /\ swept' = FALSE
  /\ UNCHANGED <<lastFetchTime, liveAnalytics, liveSentiment,
                 tickers, nextSweep, connVars, bcastVars, nPublish, nBroadcast, shown>>
  /\ UNCHANGED <<binary, auxVars, now, rlVars, callerVars, fmVars>>

\* The goroutine of source s: fetchRSSFeed returns res, and on success the
\* goroutine appends the source's items to allNews under mu.
FetchDoneOf(s, results) ==
  /\ binary = "monolith"
  /\ phase = "fetching"
  /\ task[s] = "running"
  /\ \E res \in results :
       /\ allNews' = TaskAppend(allNews, s, res, now, cycleNo)
       /\ fetched' = [fetched EXCEPT ![s] = res]
  /\ procTime' = [procTime EXCEPT ![s] = now]
  /\ task' = [task EXCEPT ![s] = "done"]
  /\ UNCHANGED <<storeVars, phase, cycleStart, cycleNo, tickerVars, connVars,
                 bcastVars, ghostVars>>
  /\ UNCHANGED <<binary, auxVars, now, rlVars, callerVars, fmVars>>

FetchDone(s) == FetchDoneOf(s, FetchResults)

\* What a server may answer: a status, and a body that is a feed document
\* or not XML at all.
HTTPResponses ==
  {[status |-> st, xml |-> x, items |-> IF x THEN DocBreaking ELSE <<>>] :
     st \in {200, 404, 500}, x \in BOOLEAN}

\* No response yet.
NoAnswer == [status |-> 0, xml |-> FALSE, items |-> <<>>]

HttpStart == httpResp = [s \in Sources |-> NoAnswer]

\* fetchRSSFeed on a response: the body is read and unmarshalled, whatever
\* the status; (nil, err) when it is not XML.
fetchRSSFeed(resp) ==
  IF resp.xml THEN [ok |-> TRUE, items |-> resp.items] ELSE FetchError

\* The goroutine of source s, the response of the server in view.
StatusFetchDone(s) ==
  /\ binary = "monolith"
  /\ phase = "fetching"
  /\ task[s] = "running"
  /\ \E resp \in HTTPResponses :
       /\ httpResp' = [httpResp EXCEPT ![s] = resp]
       /\ allNews' = TaskAppend(allNews, s, fetchRSSFeed(resp), now, cycleNo)
       /\ fetched' = [fetched EXCEPT ![s] = fetchRSSFeed(resp)]
  /\ procTime' = [procTime EXCEPT ![s] = now]
  /\ task' = [task EXCEPT ![s] = "done"]
  /\ UNCHANGED <<storeVars, phase, cycleStart, cycleNo, tickerVars, connVars,
                 bcastVars, ghostVars>>
  /\ UNCHANGED <<binary, cacheVars, utilVars, handlerVars, parseVars, newsVars, now,
                 rlVars, callerVars, fmVars>>

\* The same goroutine, answered by an error or by one document only.
HubFetchDone(s) == FetchDoneOf(s, {FetchError, [ok |-> TRUE, items |-> DocBreaking]})

\* A publish that writes the list and the timestamp in its critical section
\* and leaves the analytics and the sentiment for later.
PublishListFirst ==
  /\ binary = "monolith"
  /\ phase = "fetching"
  /\ \A s \in Sources : task[s] = "done"
  /\ \E trimmed \in Trim(allNews) :
       /\ allNews' = trimmed
       /\ currentNews' = trimmed
       /\ UNCHANGED <<liveAnalytics, liveSentiment>>
       /\ shown' = [i \in 1..Len(trimmed) |-> trimmed[i].PubDate]
  /\ lastFetchTime' = now
  /\ phase' = "published"
  /\ nPublish' = nPublish + 1
  /\ swept' = FALSE
  /\ UNCHANGED <<task, fetched, procTime, cycleStart, cycleNo, tickerVars,
                 connVars, bcastVars, nBroadcast>>
  /\ UNCHANGED <<binary, auxVars, now, rlVars, callerVars, fmVars>>

\* A publish that waits for one goroutine only, not for all.
PublishEarly ==
  /\ binary = "monolith"
  /\ phase = "fetching"
  /\ \E s \in Sources : task[s] = "done"
  /\ \E trimmed \in Trim(allNews) :
       /\ allNews' = trimmed
       /\ currentNews' = trimmed
       /\ liveAnalytics' = generateAnalytics(trimmed)
       /\ liveSentiment' = generateSentimentData(trimmed)
       /\ shown' = [i \in 1..Len(trimmed) |-> trimmed[i].PubDate]
  /\ lastFetchTime' = now
  /\ phase' = "published"
  /\ nPublish' = nPublish + 1
  /\ swept' = FALSE
  /\ UNCHANGED <<task, fetched, procTime, cycleStart, cycleNo, tickerVars,
                 connVars, bcastVars, nBroadcast>>
  /\ UNCHANGED <<binary, auxVars, now, rlVars, callerVars, fmVars>>

\* fetchAllNews after wg.Wait: trim, compute the analytics, and replace the
\* store inside one newsMutex.Lock section.
Publish ==
  /\ binary = "monolith"
  /\ phase = "fetching"
  /\ \A s \in Sources : task[s] = "done"
  /\ \E trimmed \in Trim(allNews) :
       /\ allNews' = trimmed
       /\ currentNews' = trimmed
       /\ liveAnalytics' = generateAnalytics(trimmed)
       /\ liveSentiment' = generateSentimentData(trimmed)
       /\ shown' = [i \in 1..Len(trimmed) |-> trimmed[i].PubDate]
  /\ lastFetchTime' = now
  /\ phase' = "published"
  /\ nPublish' = nPublish + 1
  /\ swept' = FALSE
  /\ UNCHANGED <<task, fetched, procTime, cycleStart, cycleNo, tickerVars,
                 connVars, bcastVars, nBroadcast>>
  /\ UNCHANGED <<binary, auxVars, now, rlVars, callerVars, fmVars>>

\* A broadcastUpdate that ranges over no client.
BroadcastReadNoRange ==
  /\ binary = "monolith"
  /\ phase = "published"
  /\ bcastData' = NewsData
  /\ bcastPending' = {}
  /\ bcastSet' = clients
  /\ bcastFailed' = {}
  /\ nBroadcast' = nBroadcast + 1
  /\ phase' = "sending"
  /\ UNCHANGED <<storeVars, allNews, task, fetched, procTime, cycleStart, cycleNo,
                 tickerVars, connVars, nPublish, swept, shown>>
  /\ UNCHANGED <<binary, auxVars, now, rlVars, callerVars, fmVars>>

\* broadcastUpdate, its head: copy the store under newsMutex.RLock, then take
\* clientsMutex.RLock and start ranging over clients.
BroadcastRead ==
  /\ binary = "monolith"
  /\ phase = "published"
  /\ bcastData' = NewsData
  /\ bcastPending' = clients
  /\ bcastSet' = clients
  /\ bcastFailed' = {}
  /\ nBroadcast' = nBroadcast + 1
  /\ phase' = "sending"
  /\ UNCHANGED <<storeVars, allNews, task, fetched, procTime, cycleStart, cycleNo,
                 tickerVars, connVars, nPublish, swept, shown>>
  /\ UNCHANGED <<binary, auxVars, now, rlVars, callerVars, fmVars>>

\* An iteration that leaves a client whose send failed in the map.
SendResultKeep(c, ok) ==
  IF ok
  THEN /\ inbox' = [inbox EXCEPT ![c] = Append(@, [kind |-> "broadcast", n |-> nBroadcast, data |-> bcastData])]
       /\ UNCHANGED <<clients, dropped, bcastFailed>>
  ELSE /\ dropped' = dropped \cup {c}
       /\ bcastFailed' = bcastFailed \cup {c}
       /\ UNCHANGED <<clients, inbox>>

\* One iteration of broadcastUpdate's loop: client.WriteJSON(data) succeeds,
\* or fails and the client is closed and deleted from the map.
SendResult(c, ok) ==
  IF ok
  THEN /\ inbox' = [inbox EXCEPT ![c] = Append(@, [kind |-> "broadcast", n |-> nBroadcast, data |-> bcastData])]
       /\ UNCHANGED <<clients, dropped, bcastFailed>>
  ELSE /\ clients' = clients \ {c}
       /\ dropped' = dropped \cup {c}
       /\ bcastFailed' = bcastFailed \cup {c}
       /\ UNCHANGED inbox

BroadcastSend(c) ==
  /\ binary = "monolith"
  /\ phase = "sending"
  /\ c \in bcastPending
  /\ c \notin slow
  /\ \E ok \in BOOLEAN : SendResult(c, ok)
  /\ bcastPending' = bcastPending \ {c}
  /\ UNCHANGED <<storeVars, cycleVars, tickerVars, connPc, connData, slow, bcastData,
                 bcastSet, ghostVars>>
  /\ UNCHANGED <<binary, auxVars, now, rlVars, callerVars, fmVars>>

\* broadcastUpdate returns, and fetchAllNews with it.  After the first call
\* startPeriodicRefresh creates its two tickers.
BroadcastDone ==
  /\ binary = "monolith"
  /\ phase = "sending"
  /\ bcastPending = {}
  /\ phase' = "idle"
  /\ IF tickers THEN UNCHANGED tickerVars
     ELSE /\ tickers' = TRUE
          /\ nextRefresh' = now + RefreshInterval
          /\ nextSweep' = now + SweepInterval
  /\ UNCHANGED <<storeVars, allNews, task, fetched, procTime, cycleStart, cycleNo,
                 connVars, bcastVars, ghostVars>>
  /\ UNCHANGED <<binary, auxVars, now, rlVars, callerVars, fmVars>>

\* performMemoryCleanup, on a tick of cleanupTicker.
Sweep ==
  /\ binary = "monolith"
  /\ tickers
  /\ now >= nextSweep
  /\ nextSweep' = nextSweep + SweepInterval
  /\ currentNews' = Recent(currentNews, now)
  /\ shown' = SelectSeq(shown, LAMBDA d : d > now - Horizon)
  /\ swept' = TRUE
  /\ UNCHANGED <<lastFetchTime, liveAnalytics, liveSentiment, cycleVars, tickers,
                 nextRefresh, connVars, bcastVars, nPublish, nBroadcast>>
  /\ UNCHANGED <<binary, auxVars, now, rlVars, callerVars, fmVars>>

\* getCurrentNews (called by homeHandler and apiHandler): under
\* newsMutex.RLock it rewrites TimeAgo in every element of currentNews and
\* returns the slice.
getCurrentNews ==
  /\ binary = "monolith"
  /\ currentNews' = [i \in 1..Len(currentNews) |->
                       [currentNews[i] EXCEPT !.TimeAgo = timeAgo(now - currentNews[i].PubDate)]]
  /\ UNCHANGED <<lastFetchTime, liveAnalytics, liveSentiment, cycleVars, tickerVars,
                 connVars, bcastVars, ghostVars>>
  /\ UNCHANGED <<binary, auxVars, now, rlVars, callerVars, fmVars>>

\* handleWebSocket, its head: upgrade, then add the connection to clients
\* under clientsMutex.Lock (which waits while broadcastUpdate holds RLock).
WSConnect(c) ==
  /\ binary = "monolith"
  /\ connPc[c] = "none"
  /\ IF c = 1 THEN TRUE ELSE connPc[c - 1] # "none"   \* interchangeable
  /\ phase # "sending"
  /\ clients' = clients \cup {c}
  /\ connPc' = [connPc EXCEPT ![c] = "registered"]
  /\ UNCHANGED <<storeVars, cycleVars, tickerVars, connData, inbox, dropped, slow,
                 bcastVars, ghostVars>>
  /\ UNCHANGED <<binary, auxVars, now, rlVars, callerVars, fmVars>>

\* handleWebSocket copies the store under newsMutex.RLock.
WSInitialRead(c) ==
  /\ binary = "monolith"
  /\ connPc[c] = "registered"
  /\ connData' = [connData EXCEPT ![c] = NewsData]
  /\ connPc' = [connPc EXCEPT ![c] = "read"]
  /\ UNCHANGED <<storeVars, cycleVars, tickerVars, clients, inbox, dropped, slow,
                 bcastVars, ghostVars>>
  /\ UNCHANGED <<binary, auxVars, now, rlVars, callerVars, fmVars>>

\* handleWebSocket writes the initial data (the write fails, unnoticed, on a
\* connection broadcastUpdate has closed) and enters its read loop.
WSInitialSend(c) ==
  /\ binary = "monolith"
  /\ connPc[c] = "read"
  /\ inbox' = [inbox EXCEPT ![c] =
                 IF c \in dropped THEN @
                 ELSE Append(@, [kind |-> "initial", n |-> nBroadcast, data |-> connData[c]])]
  /\ connPc' = [connPc EXCEPT ![c] = "open"]
  /\ UNCHANGED <<storeVars, cycleVars, tickerVars, clients, connData, dropped, slow,
                 bcastVars, ghostVars>>
  /\ UNCHANGED <<binary, auxVars, now, rlVars, callerVars, fmVars>>

\* conn.ReadMessage fails (the peer left, or the connection was closed):
\* handleWebSocket deletes the connection under clientsMutex.Lock and ends.
WSDisconnect(c) ==
  /\ binary = "monolith"
  /\ connPc[c] = "open"
  /\ phase # "sending"
  /\ clients' = clients \ {c}
  /\ connPc' = [connPc EXCEPT ![c] = "closed"]
  /\ UNCHANGED <<storeVars, cycleVars, tickerVars, connData, inbox, dropped, slow,
                 bcastVars, ghostVars>>
  /\ UNCHANGED <<binary, auxVars, now, rlVars, callerVars, fmVars>>

\* The peer of an open connection stops accepting data: from then on a
\* WriteJSON to it blocks (no write deadline is ever set on a connection).
PeerStalls(c) ==
  /\ binary = "monolith"
  /\ connPc[c] = "open"
  /\ c \in clients
  /\ c \notin slow
  /\ slow' = slow \cup {c}
  /\ UNCHANGED <<storeVars, cycleVars, tickerVars, clients, connPc, connData, inbox,
                 dropped, bcastVars, ghostVars>>
  /\ UNCHANGED <<binary, auxVars, now, rlVars, callerVars, fmVars>>

\* The peer of a stalled connection accepts data again: the WriteJSON that
\* was blocked on it can complete.
PeerResumes(c) ==
  /\ binary = "monolith"
  /\ c \in slow
  /\ slow' = slow \ {c}
  /\ UNCHANGED <<storeVars, cycleVars, tickerVars, clients, connPc, connData, inbox,
                 dropped, bcastVars, ghostVars>>
  /\ UNCHANGED <<binary, auxVars, now, rlVars, callerVars, fmVars>>

\* Time passes.  The tickers' goroutines run when their tick is due; a
\* cycle's fetches end within the request timeout.
Tick(maxTime) ==
  /\ binary = "monolith"
  /\ now < maxTime
  /\ tickers => now < nextSweep
  /\ (tickers /\ phase = "idle") => now < nextRefresh
  /\ (~tickers /\ phase = "idle") => cycleNo > 0
  /\ phase \in {"fetching", "published"} => now < cycleStart + FetchTimeout
  /\ phase = "sending" => bcastPending # {}
  /\ now' = now + 1
  /\ UNCHANGED <<binary, auxVars, rlVars, callerVars, engVars, fmVars>>

EngTick == Tick(EngMaxTime)
HubTick == Tick(HubMaxTime)
SlowTick == Tick(SlowMaxTime)
ReadTick == Tick(ReadMaxTime)

\* The aggregation engine alone: the cycle and the sweeper, with no
\* connection made to the hub (broadcastUpdate ranges over an empty map).
EngNext ==
  \/ CycleStart
  \/ \E s \in Sources : FetchDone(s)
  \/ Publish
  \/ BroadcastRead
  \/ BroadcastDone
  \/ Sweep
  \/ EngTick

\* The engine with the hub and its connections.
HubNext ==
  \/ CycleStart
  \/ \E s \in Sources : HubFetchDone(s)
  \/ Publish
  \/ BroadcastRead
  \/ \E c \in Conns : BroadcastSend(c)
  \/ BroadcastDone
  \/ Sweep
  \/ \E c \in Conns : WSConnect(c)
  \/ \E c \in Conns : WSInitialRead(c)
  \/ \E c \in Conns : WSInitialSend(c)
  \/ \E c \in Conns : WSDisconnect(c)
  \/ HubTick

\* The engine with the hub, its connections, and peers that may stall.
SlowNext ==
  \/ CycleStart
  \/ \E s \in Sources : HubFetchDone(s)
  \/ Publish
  \/ BroadcastRead
  \/ \E c \in Conns : BroadcastSend(c)
  \/ BroadcastDone
  \/ Sweep
  \/ \E c \in Conns : WSConnect(c)
  \/ \E c \in Conns : WSInitialRead(c)
  \/ \E c \in Conns : WSInitialSend(c)
  \/ \E c \in Conns : WSDisconnect(c)
  \/ \E c \in Conns : PeerStalls(c)
  \/ SlowTick

\* The engine with the HTTP handlers that read the store.
ReadNext ==
  \/ CycleStart
  \/ \E s \in Sources : FetchDone(s)
  \/ Publish
  \/ BroadcastRead
  \/ BroadcastDone
  \/ Sweep
  \/ getCurrentNews
  \/ ReadTick

\* ------------------------------------------------ main.go: filterHandler

\* The keys of rssSources that the sources of the model stand for.
SourceIDs == <<"BS_MARKETS", "TOI">>

\* The queries asked: source, category, sentiment, nifty50.
Query(source, category, sentiment, nifty50) ==
  [source |-> source, category |-> category, sentiment |-> sentiment,
   nifty50Only |-> nifty50]
Queries ==
  { Query("", "", "", FALSE),
    Query("BS_MARKETS", "", "", FALSE),
    Query("TOI", "Markets", "", FALSE),
    Query("BS_ALL", "", "", FALSE),
    Query("", "Markets", "Positive", FALSE),
    Query("", "", "Neutral", TRUE),
    Query("", "", "", TRUE) }

NoBody == <<[Source |-> 0]>>

HandlerStart ==
  /\ filtPc = "idle"
  /\ filtQuery = Query("", "", "", FALSE)
  /\ filtItems = <<>>
  /\ filtResp = NoBody

\* The tests of filterHandler's loop on one item whose Source is id: TRUE
\* iff it is appended.
KeepsID(id, item, q) ==
  /\ IF q.source = "BS_ALL"
     THEN id \in {"BS_MARKETS", "BS_NEWS", "BS_COMMODITIES", "BS_IPO", "BS_CRYPTO"}
     ELSE q.source = "" \/ id = q.source
  /\ q.category = "" \/ item.Category = q.category
  /\ q.sentiment = "" \/ item.SentimentLabel = q.sentiment
  /\ ~q.nifty50Only \/ item.HasNifty50

\* The same on an item of the engine, whose Source is a number.
Keeps(item, q) == KeepsID(SourceIDs[item.Source], item, q)

\* filterHandler, its head: the query is parsed and the slice header of
\* currentNews copied under newsMutex.RLock.
FilterRead(q) ==
  /\ binary = "monolith"
  /\ filtPc = "idle"
  /\ filtPc' = "read"
  /\ filtQuery' = q
  /\ filtItems' = currentNews
  /\ UNCHANGED filtResp
  /\ UNCHANGED <<binary, now, rlVars, callerVars, engVars, fmVars, cacheVars, utilVars, parseVars, httpVars, newsVars>>

\* An item without its TimeAgo.
Bare(item) == [item EXCEPT !.TimeAgo = timeAgo(0)]

\* What the range loop may read, the lock being released: allItems shares
\* its array with currentNews until a cycle or a sweep replaces the list,
\* and getCurrentNews rewrites the TimeAgo of that array in place.  The
\* first `seen` items are read before such a rewrite and the rest after.
FilterView(seen) ==
  IF Len(currentNews) = Len(filtItems)
       /\ \A i \in 1..Len(filtItems) : Bare(currentNews[i]) = Bare(filtItems[i])
  THEN [i \in 1..Len(filtItems) |->
          IF i <= seen THEN filtItems[i] ELSE currentNews[i]]
  ELSE filtItems

\* filterHandler, the loop and the response.
FilterScan ==
  /\ binary = "monolith"
  /\ filtPc = "read"
  /\ \E seen \in 0..Len(filtItems) :
       filtResp' = SelectSeq(FilterView(seen), LAMBDA item : Keeps(item, filtQuery))
  /\ filtPc' = "idle"
  /\ UNCHANGED <<filtQuery, filtItems>>
  /\ UNCHANGED <<binary, now, rlVars, callerVars, engVars, fmVars, cacheVars, utilVars, parseVars, httpVars, newsVars>>

FilterTick == Tick(FilterMaxTime)

\* The keys of rssSources, and those of the Business Standard feeds.
Registry ==
  {"TOI", "TH", "BL", "LM", "ZP", "BS_MARKETS", "BS_NEWS", "BS_COMMODITIES",
   "BS_IPO", "BS_STOCK_MARKET", "BS_CRYPTO", "NSE_IT", "NSE_BB", "NSE_FR",
   "NDTV_PROFIT"}
BSSources ==
  {"BS_MARKETS", "BS_NEWS", "BS_COMMODITIES", "BS_IPO", "BS_STOCK_MARKET",
   "BS_CRYPTO"}

\* An item of the source with key id, as far as filterHandler reads it.
RegistryItem(id) ==
  [Source |-> id, Category |-> "Markets", SentimentLabel |-> "Positive",
   HasNifty50 |-> TRUE]

\* Snapshots of up to MaxSnapshot items from any sources of the registry.
Snapshots ==
  UNION {[1..n -> {RegistryItem(id) : id \in Registry}] : n \in 0..MaxSnapshot}

\* filterHandler run in one piece on a snapshot: the query is parsed, the
\* list read and the loop run with no writer in between.
FilterSnapshot(q, snapshot) ==
  /\ binary = "filter"
  /\ filtQuery' = q
  /\ filtItems' = snapshot
  /\ filtResp' = SelectSeq(snapshot, LAMBDA item : KeepsID(item.Source, item, q))
  /\ UNCHANGED filtPc
  /\ UNCHANGED <<binary, now, rlVars, callerVars, engVars, fmVars, cacheVars, utilVars, parseVars, httpVars, newsVars>>

SnapshotNext == \E q \in Queries, snapshot \in Snapshots : FilterSnapshot(q, snapshot)

\* The engine, with pages rendered and filter requests served meanwhile.
FilterNext ==
  \/ CycleStart
  \/ \E s \in Sources : HubFetchDone(s)
  \/ Publish
  \/ BroadcastRead
  \/ BroadcastDone
  \/ Sweep
  \/ getCurrentNews
  \/ \E q \in Queries : FilterRead(q)
  \/ FilterScan
  \/ FilterTick

\* ------------------------------------------------ part_001: cache.Cache

Keys == 1..NumKeys
Getters == 1..NumGetters

\* No entry under a key; no result yet.
Absent == [Value |-> 0, Expiration |-> -1]
NoResult == [ok |-> FALSE, Value |-> 0, entry |-> 0, at |-> -1, Expiration |-> -1]

\* NewCache: an empty map, cleanup's ticker started.
CacheStart ==
  /\ cacheItems = [k \in Keys |-> Absent]
  /\ getPc = [g \in Getters |-> "idle"]
  /\ getKey = [g \in Getters |-> 1]
  /\ getItem = [g \in Getters |-> Absent]
  /\ getRes = [g \in Getters |-> NoResult]
  /\ nextCleanup = CleanupInterval
  /\ storedAt = <<>>

\* Set(key, value), under c.mu.Lock: the value is the serial of the call.
CacheSet(k) ==
  /\ binary = "cache"
  /\ Len(storedAt) < MaxSets
  /\ cacheItems' = [cacheItems EXCEPT ![k] = [Value |-> Len(storedAt) + 1,
                                    Expiration |-> now + CacheDuration]]
  /\ storedAt' = Append(storedAt, now)
  /\ UNCHANGED <<getPc, getKey, getItem, getRes, nextCleanup>>
  /\ UNCHANGED <<binary, now, rlVars, callerVars, engVars, fmVars, utilVars, handlerVars, parseVars, httpVars, newsVars>>

\* Get(key), first part: the item is copied under c.mu.RLock.
GetRead(g, k) ==
  /\ binary = "cache"
  /\ getPc[g] = "idle"
  /\ getPc' = [getPc EXCEPT ![g] = "read"]
  /\ getKey' = [getKey EXCEPT ![g] = k]
  /\ getItem' = [getItem EXCEPT ![g] = cacheItems[k]]
  /\ UNCHANGED <<cacheItems, getRes, nextCleanup, storedAt>>
  /\ UNCHANGED <<binary, now, rlVars, callerVars, engVars, fmVars, utilVars, handlerVars, parseVars, httpVars, newsVars>>

\* Get with the test of the expiry left out.
GetCheckNoExpiry(g) ==
  /\ binary = "cache"
  /\ getPc[g] = "read"
  /\ getPc' = [getPc EXCEPT ![g] = "idle"]
  /\ getRes' = [getRes EXCEPT ![g] =
                  IF getItem[g] = Absent
                  THEN [NoResult EXCEPT !.at = now]
                  ELSE [ok |-> TRUE, Value |-> getItem[g].Value,
                        entry |-> getItem[g].Value, at |-> now,
                        Expiration |-> getItem[g].Expiration]]
  /\ getItem' = [getItem EXCEPT ![g] = IF getPc'[g] = "idle" THEN Absent ELSE @]
  /\ UNCHANGED <<cacheItems, getKey, nextCleanup, storedAt>>
  /\ UNCHANGED <<binary, now, rlVars, callerVars, engVars, fmVars, utilVars, handlerVars, parseVars, httpVars, newsVars>>

\* Get with a hit that renews the entry's expiry.
GetCheckTouch(g) ==
  /\ binary = "cache"
  /\ getPc[g] = "read"
  /\ IF getItem[g] = Absent
     THEN /\ getPc' = [getPc EXCEPT ![g] = "idle"]
          /\ getRes' = [getRes EXCEPT ![g] = [NoResult EXCEPT !.at = now]]
          /\ UNCHANGED cacheItems
     ELSE IF now > getItem[g].Expiration
     THEN /\ getPc' = [getPc EXCEPT ![g] = "deleting"]
          /\ UNCHANGED <<getRes, cacheItems>>
     ELSE /\ getPc' = [getPc EXCEPT ![g] = "idle"]
          /\ getRes' = [getRes EXCEPT ![g] =
                          [ok |-> TRUE, Value |-> getItem[g].Value,
                           entry |-> getItem[g].Value, at |-> now,
                           Expiration |-> getItem[g].Expiration]]
          /\ cacheItems' = [cacheItems EXCEPT ![getKey[g]] =
                         [getItem[g] EXCEPT !.Expiration = now + CacheDuration]]
  /\ getItem' = [getItem EXCEPT ![g] = IF getPc'[g] = "idle" THEN Absent ELSE @]
  /\ UNCHANGED <<getKey, nextCleanup, storedAt>>
  /\ UNCHANGED <<binary, now, rlVars, callerVars, engVars, fmVars, utilVars, handlerVars, parseVars, httpVars, newsVars>>

\* Get(key), second part, on the copy: not found returns (nil, false); past
\* the expiry goes on to Delete; otherwise returns (item.Value, true).
GetCheck(g) ==
  /\ binary = "cache"
  /\ getPc[g] = "read"
  /\ IF getItem[g] = Absent
     THEN /\ getPc' = [getPc EXCEPT ![g] = "idle"]
          /\ getRes' = [getRes EXCEPT ![g] = [NoResult EXCEPT !.at = now]]
     ELSE IF now > getItem[g].Expiration
     THEN /\ getPc' = [getPc EXCEPT ![g] = "deleting"]
          /\ UNCHANGED getRes
     ELSE /\ getPc' = [getPc EXCEPT ![g] = "idle"]
          /\ getRes' = [getRes EXCEPT ![g] =
                          [ok |-> TRUE, Value |-> getItem[g].Value,
                           entry |-> getItem[g].Value, at |-> now,
                           Expiration |-> getItem[g].Expiration]]
  /\ getItem' = [getItem EXCEPT ![g] = IF getPc'[g] = "idle" THEN Absent ELSE @]
  /\ UNCHANGED <<cacheItems, getKey, nextCleanup, storedAt>>
  /\ UNCHANGED <<binary, now, rlVars, callerVars, engVars, fmVars, utilVars, handlerVars, parseVars, httpVars, newsVars>>

\* Get(key), last part: c.Delete(key) under c.mu.Lock, then (nil, false).
GetDelete(g) ==
  /\ binary = "cache"
  /\ getPc[g] = "deleting"
  /\ cacheItems' = [cacheItems EXCEPT ![getKey[g]] = Absent]
  /\ getPc' = [getPc EXCEPT ![g] = "idle"]
  /\ getRes' = [getRes EXCEPT ![g] =
                  [ok |-> FALSE, Value |-> 0, entry |-> getItem[g].Value,
                   at |-> now, Expiration |-> getItem[g].Expiration]]
  /\ getItem' = [getItem EXCEPT ![g] = IF getPc'[g] = "idle" THEN Absent ELSE @]
  /\ UNCHANGED <<getKey, nextCleanup, storedAt>>
  /\ UNCHANGED <<binary, now, rlVars, callerVars, engVars, fmVars, utilVars, handlerVars, parseVars, httpVars, newsVars>>

\* Delete(key), called from outside.
CacheDelete(k) ==
  /\ binary = "cache"
  /\ cacheItems[k] # Absent
  /\ cacheItems' = [cacheItems EXCEPT ![k] = Absent]
  /\ UNCHANGED <<getPc, getKey, getItem, getRes, nextCleanup, storedAt>>
  /\ UNCHANGED <<binary, now, rlVars, callerVars, engVars, fmVars, utilVars, handlerVars, parseVars, httpVars, newsVars>>

\* A pass that also deletes the entries expiring at this very instant.
cleanupInclusive ==
  /\ binary = "cache"
  /\ now >= nextCleanup
  /\ cacheItems' = [k \in Keys |->
                 IF cacheItems[k] # Absent /\ now >= cacheItems[k].Expiration
                 THEN Absent ELSE cacheItems[k]]
  /\ nextCleanup' = nextCleanup + CleanupInterval
  /\ UNCHANGED <<getPc, getKey, getItem, getRes, storedAt>>
  /\ UNCHANGED <<binary, now, rlVars, callerVars, engVars, fmVars, utilVars, handlerVars, parseVars, httpVars, newsVars>>

\* cleanup, one tick of its ticker: every entry past its expiry is deleted.
cleanup ==
  /\ binary = "cache"
  /\ now >= nextCleanup
  /\ cacheItems' = [k \in Keys |->
                 IF cacheItems[k] # Absent /\ now > cacheItems[k].Expiration
                 THEN Absent ELSE cacheItems[k]]
  /\ nextCleanup' = nextCleanup + CleanupInterval
  /\ UNCHANGED <<getPc, getKey, getItem, getRes, storedAt>>
  /\ UNCHANGED <<binary, now, rlVars, callerVars, engVars, fmVars, utilVars, handlerVars, parseVars, httpVars, newsVars>>

\* Time passes; neither cleanup nor a goroutine inside Get has to run first.
CacheTick ==
  /\ binary = "cache"
  /\ now < CacheMaxTime
  /\ now' = now + 1
  /\ UNCHANGED <<binary, auxVars, rlVars, callerVars, engVars, fmVars>>

CacheNext ==
  \/ \E k \in Keys : CacheSet(k)
  \/ \E g \in Getters, k \in Keys : GetRead(g, k)
  \/ \E g \in Getters : GetCheck(g)
  \/ \E g \in Getters : GetDelete(g)
  \/ \E k \in Keys : CacheDelete(k)
  \/ cleanup
  \/ CacheTick

\* ------------------------------------------------ utils.go: GenerateID

\* The entries identified: each of guid, link and title present or not.
Guids == {"", "g", "h"}
Links == {"", "l"}
Titles == {"", "A", "B"}

\* fmt.Sprintf("%x", md5.Sum(s))[:16] on the strings met here.
MD5Pairs ==
  {  <<"g", "b2f5ff47436671b6">>,
     <<"h", "2510c39011c5be70">>,
     <<"l", "2db95e8e1a9267b7">>,
     <<"A0", "d88c146dfafdea37">>,
     <<"A1", "27f237e6b7f96587">>,
     <<"A2", "c6bdf6f65f3845da">>,
     <<"A3", "6593d7b12fd418cd">>,
     <<"A4", "0c2f3adf2a48bab3">>,
     <<"A5", "c6f2f93133905f75">>,
     <<"B0", "4c769c2c9989abb9">>,
     <<"B1", "c9512565ef6194ca">>,
     <<"B2", "bbd97b00c539801e">>,
     <<"B3", "0c4ecd7b59ebc5b9">>,
     <<"B4", "d5d4cc7b09d18435">>,
     <<"B5", "2a1ab298edf0162a">>,
     <<"0", "cfcd208495d565ef">>,
     <<"1", "c4ca4238a0b92382">>,
     <<"2", "c81e728d9d4c2f63">>,
     <<"3", "eccbc87e4b5ce2fe">>,
     <<"4", "a87ff679a2f3e71d">>,
     <<"5", "e4da3b7fbbce2345">> }

MD5Hex16(s) == (CHOOSE p \in MD5Pairs : p[1] = s)[2]

\* GenerateID(guid, link, title) called at Unix second t.
GenerateID(guid, link, title, t) ==
  LET source == IF guid # "" THEN guid
                ELSE IF link # "" THEN link
                ELSE title \o ToString(t)
  IN  MD5Hex16(source)

NoCall == [guid |-> "", link |-> "", title |-> "", at |-> -1, id |-> ""]

UtilStart ==
  /\ idPrev = NoCall
  /\ idLast = NoCall

\* One call of GenerateID, at the instant `now`.
CallGenerateID(guid, link, title) ==
  /\ binary = "utils"
  /\ idPrev' = idLast
  /\ idLast' = [guid |-> guid, link |-> link, title |-> title, at |-> now,
                id |-> GenerateID(guid, link, title, now)]
  /\ UNCHANGED <<binary, now, rlVars, callerVars, engVars, fmVars, cacheVars, handlerVars, parseVars, httpVars, newsVars>>

\* A second passes.
UtilTick ==
  /\ binary = "utils"
  /\ now < IDMaxTime
  /\ now' = now + 1
  /\ UNCHANGED <<binary, auxVars, rlVars, callerVars, engVars, fmVars>>

UtilNext ==
  \/ \E guid \in Guids, link \in Links, title \in Titles :
       CallGenerateID(guid, link, title)
  \/ UtilTick

\* ------------------------- the parsers of an entry's publish timestamp

\* Timestamps as feeds carry them: the reference time written in a layout
\* (alone, or with a leading blank), strings in no layout, the all-zero
\* date, a blank and the empty string.
DateStrings ==
  {"Mon, 02 Jan 2006 15:04:05 -0700", " Mon, 02 Jan 2006 15:04:05 -0700",
   "02-Jan-2006 15:04:05", "2006-01-02", "yesterday",
   "0000-00-00 00:00:00", " ", ""}

\* The instant the reference-time strings denote: before every `now`.
RefTime == -1

\* strings.TrimSpace on DateStrings.
TrimSpace(str) ==
  IF str = " " THEN ""
  ELSE IF str = " Mon, 02 Jan 2006 15:04:05 -0700"
       THEN "Mon, 02 Jan 2006 15:04:05 -0700"
  ELSE str

\* time.Parse and time.ParseInLocation on the trimmed strings above: each
\* is the reference time in one layout, which that layout alone accepts
\* (but for the layouts differing in the day's leading zero, which accept
\* the same strings), or is accepted by none (month 00 is out of range).
time_Parse(layout, str) ==
  IF str = layout
       \/ <<layout, str>> = <<"Mon, 2 Jan 2006 15:04:05 -0700",
                              "Mon, 02 Jan 2006 15:04:05 -0700">>
  THEN [ok |-> TRUE, t |-> RefTime]
  ELSE [ok |-> FALSE, t |-> ZeroTime]

\* The first layout of a list that parses str, as the loops try them.
RECURSIVE TryLayouts(_, _)
TryLayouts(layouts, str) ==
  IF layouts = <<>> THEN [ok |-> FALSE, t |-> ZeroTime]
  ELSE LET r == time_Parse(Head(layouts), str)
       IN  IF r.ok THEN r ELSE TryLayouts(Tail(layouts), str)

\* main.go parseTime: its three first attempts, then its formats.
parseTimeLayouts ==
  << "02-Jan-2006 15:04:05 MST", "02-Jan-2006 15:04:05", "02-Jan-2006 15:04",
     "Mon, 02 Jan 2006 15:04:05 MST", "Mon, 02 Jan 2006 15:04:05 -0700",
     "2006-01-02T15:04:05Z", "2006-01-02T15:04:05-07:00",
     "Mon, 2 Jan 2006 15:04:05 MST", "Mon, 2 Jan 2006 15:04:05 -0700",
     "Mon, 02 Jan 2006 15:04:05 GMT", "Mon, 2 Jan 2006 15:04:05 GMT",
     "2006-01-02 15:04:05", "02-Jan-2006 15:04:05", "02-Jan-2006 15:04",
     "02-Jan-2006 15:04:05 MST" >>

\* parseTime at instant t: the time returned, whether it is the fallback,
\* and the records it logs.
parseTime(dateStr, t) ==
  LET str == TrimSpace(dateStr)
      r   == TryLayouts(parseTimeLayouts, str)
  IN  IF r.ok THEN [t |-> r.t, fallback |-> FALSE, logs |-> <<>>]
      ELSE [t |-> t, fallback |-> TRUE,
            logs |-> IF str # "" /\ str # "0000-00-00 00:00:00"
                     THEN <<str>> ELSE <<>>]

\* utils.ParseDate: its layouts (time.RFC1123Z first, and so on).
ParseDateLayouts ==
  << "Mon, 02 Jan 2006 15:04:05 -0700", "Mon, 02 Jan 2006 15:04:05 MST",
     "2006-01-02T15:04:05Z07:00", "02 Jan 06 15:04 -0700", "02 Jan 06 15:04 MST",
     "Mon, 02 Jan 2006 15:04:05 -0700", "Mon, 2 Jan 2006 15:04:05 -0700",
     "Mon, 02 Jan 2006 15:04:05 MST", "Mon, 2 Jan 2006 15:04:05 MST",
     "2006-01-02T15:04:05Z", "2006-01-02T15:04:05-07:00",
     "2006-01-02T15:04:05.000Z", "2006-01-02 15:04:05",
     "Jan 2, 2006 3:04:05 PM", "January 2, 2006 3:04:05 PM",
     "January 2, 2006", "Jan 2, 2006", "2006-01-02",
     "02/01/2006 15:04:05", "02-01-2006 15:04:05" >>

\* ParseDate at instant t: it logs nothing.
ParseDate(dateStr, t) ==
  LET r == TryLayouts(ParseDateLayouts, TrimSpace(dateStr))
  IN  IF r.ok THEN [t |-> r.t, fallback |-> FALSE, logs |-> <<>>]
      ELSE [t |-> t, fallback |-> TRUE, logs |-> <<>>]

\* FeedManager.fetchRSSFeed's handling of item.PubDate at instant t: one
\* layout, no trimming, the error dropped, nothing logged.
FeedPubDate(dateStr, t) ==
  LET r == time_Parse("Mon, 02 Jan 2006 15:04:05 -0700", dateStr)
  IN  IF r.t = ZeroTime THEN [t |-> t, fallback |-> TRUE, logs |-> <<>>]
      ELSE [t |-> r.t, fallback |-> FALSE, logs |-> <<>>]

Parsers == {"parseTime", "ParseDate", "fetchRSSFeed"}

\* No call yet.
NoParse == [fn |-> "", in |-> "", t |-> ZeroTime, fallback |-> FALSE]

ParseStart ==
  /\ parseLast = NoParse
  /\ parseLog = <<>>
  /\ nParse = 0

\* One entry's publish timestamp is parsed, by one of the three parsers.
CallParse(fn, dateStr) ==
  /\ binary = "dates"
  /\ nParse < MaxParses
  /\ LET r == IF fn = "parseTime" THEN parseTime(dateStr, now)
              ELSE IF fn = "ParseDate" THEN ParseDate(dateStr, now)
              ELSE FeedPubDate(dateStr, now)
     IN  /\ parseLast' = [fn |-> fn, in |-> dateStr, t |-> r.t, fallback |-> r.fallback]
         /\ parseLog' = parseLog \o r.logs
  /\ nParse' = nParse + 1
  /\ UNCHANGED <<binary, now, rlVars, callerVars, engVars, fmVars, cacheVars, utilVars,
                 handlerVars, httpVars, newsVars>>

ParseTick ==
  /\ binary = "dates"
  /\ now < ParseMaxTime
  /\ now' = now + 1
  /\ UNCHANGED <<binary, auxVars, rlVars, callerVars, engVars, fmVars>>

ParseNext ==
  \/ \E fn \in Parsers, dateStr \in DateStrings : CallParse(fn, dateStr)
  \/ ParseTick

\* ------------------------------------ part_005: FeedManager.GetNews

\* The stored items as far as GetNews reads them: sources "bbc" and
\* "reuters" (category "general"), published at instant 1 or 2.
StoredItems ==
  {[Source |-> src, Category |-> "general", Published |-> t] :
     src \in {"bbc", "reuters"}, t \in {1, 2}}
Stores == UNION {[1..n -> StoredItems] : n \in 0..MaxStored}

\* The FilterOptions asked, as far as GetNews reads them; the zero time
\* stands for a bound that is not set.
Filters ==
  {[Source |-> src, Category |-> cat, StartTime |-> st, EndTime |-> et,
    Offset |-> off, Limit |-> lim] :
     src \in {"", "bbc"}, cat \in {"", "general"}, st \in {ZeroTime, 2},
     et \in {ZeroTime, 1}, off \in 0..MaxOffset, lim \in 0..MaxLimit}

\* The tests of GetNews's loop on one item: TRUE iff it is appended.
NewsMatches(item, f) ==
  /\ f.Source = "" \/ item.Source = f.Source
  /\ f.Category = "" \/ item.Category = f.Category
  /\ f.StartTime = ZeroTime \/ ~(item.Published < f.StartTime)
  /\ f.EndTime = ZeroTime \/ ~(item.Published > f.EndTime)

\* sort.Slice by Published, newest first; it is not stable, so it may leave
\* q in any order with no item before a newer one.
SortNewestFirst(q) ==
  LET n == Len(q)
      perms == {f \in [1..n -> 1..n] : \A i, j \in 1..n : i # j => f[i] # f[j]}
      sorted(p) == \A i, j \in 1..n : i < j => ~(p[j].Published > p[i].Published)
  IN  {p \in {[i \in 1..n |-> q[f[i]]] : f \in perms} : sorted(p)}

\* GetNews's pagination of the sorted matches.
Paginate(sorted, f) ==
  LET rest == IF f.Offset > 0 /\ f.Offset < Len(sorted)
              THEN SubSeq(sorted, f.Offset + 1, Len(sorted)) ELSE sorted
  IN  IF f.Limit > 0 /\ f.Limit < Len(rest) THEN SubSeq(rest, 1, f.Limit)
      ELSE rest

\* GetNews on the list news: what it may return.
GetNews(news, f) ==
  LET filtered == SelectSeq(news, LAMBDA item : NewsMatches(item, f))
  IN  {[items |-> Paginate(p, f), total |-> Len(filtered)] :
         p \in SortNewestFirst(filtered)}

\* No call yet.
NoPage == [items |-> <<>>, total |-> -1]

NewsStartWith(stores) ==
  /\ gnNews \in stores
  /\ gnReq = [Source |-> "", Category |-> "", StartTime |-> ZeroTime,
              EndTime |-> ZeroTime, Offset |-> 0, Limit |-> 0]
  /\ gnRes = NoPage

NewsStart == NewsStartWith({<<>>})

\* One call of GetNews, under fm.mu.RLock.
CallGetNews(f) ==
  /\ binary = "news"
  /\ gnReq' = f
  /\ gnRes' \in GetNews(gnNews, f)
  /\ UNCHANGED gnNews
  /\ UNCHANGED <<binary, now, rlVars, callerVars, engVars, fmVars, cacheVars, utilVars,
                 handlerVars, parseVars, httpVars>>

GetNewsNext == \E f \in Filters : CallGetNews(f)

\* No response yet.
NoResponse == [status |-> 0, body |-> <<>>]

\* The state NewFeedManager leaves, but for the limiter.
FMStartWith(enabled) ==
  /\ feedEnabled = enabled
  /\ fmNews = <<>>
  /\ fmLastUpdate = 0
  /\ fmTotal = 0
  /\ feedError = [s \in Sources |-> ""]
  /\ feedFetched = [s \in Sources |-> ZeroTime]
  /\ fmPhase = "idle"
  /\ fmAll = <<>>
  /\ fmPc = [s \in Sources |-> "none"]
  /\ fmResp = [s \in Sources |-> NoResponse]
  /\ fmCycle = 0
  /\ fmTicker = FALSE
  /\ fmNextPoll = 0

\* NewFeedManager: the registry of GetDefaultFeedSources, every source of
\* which is enabled.
FMStart == FMStartWith([s \in Sources |-> TRUE])

\* ----------------------------------------- the limiter under its callers

\* The limiter built with one of the rates in R, nothing called yet.
RLInitOf(R) ==
  /\ binary = "ratelimit"
  /\ now = 0
  /\ \E rpm \in R :
       LET r == NewRateLimiter(rpm, 0)
       IN  /\ capacity = r.capacity
           /\ tokens = r.tokens
           /\ lastTime = r.lastTime
  /\ muHolder = None
  /\ wakeAt = 0
  /\ callerPc = [c \in Callers |-> "idle"]
  /\ callTime = [c \in Callers |-> -1]
  /\ burst = TRUE
  /\ retLog = <<>>
  /\ onlyWait = TRUE
  /\ EngStart
  /\ FMStart
  /\ CacheStart
  /\ UtilStart
  /\ HandlerStart
  /\ ParseStart
  /\ HttpStart
  /\ NewsStart

RLInit == RLInitOf(RateLimits)

\* A goroutine calls Wait and queues on rl.mu.
CallWait(c) ==
  /\ callerPc[c] = "idle"
  /\ IF c = 1 THEN TRUE ELSE callerPc[c - 1] # "idle"  \* interchangeable
  /\ callerPc' = [callerPc EXCEPT ![c] = "called"]
  /\ callTime' = [callTime EXCEPT ![c] = now]
  /\ burst' = (burst /\ now = 0)
  /\ UNCHANGED <<binary, auxVars, engVars, fmVars, now, rlVars, retLog, onlyWait>>

CallerTake(c) ==
  /\ callerPc[c] = "called"
  /\ WaitTake
  /\ callerPc' = [callerPc EXCEPT ![c] = "returned"]
  /\ callTime' = [callTime EXCEPT ![c] = -1]
  /\ retLog' = Append(retLog, now)
  /\ UNCHANGED <<binary, auxVars, engVars, fmVars, now, burst, onlyWait>>

CallerSleep(c) ==
  /\ callerPc[c] = "called"
  /\ WaitSleep(c)
  /\ callerPc' = [callerPc EXCEPT ![c] = "sleeping"]
  /\ UNCHANGED <<binary, auxVars, engVars, fmVars, now, callTime, burst, retLog, onlyWait>>

CallerWake(c) ==
  /\ callerPc[c] = "sleeping"
  /\ WaitWake(c)
  /\ callerPc' = [callerPc EXCEPT ![c] = "returned"]
  /\ callTime' = [callTime EXCEPT ![c] = -1]
  /\ retLog' = Append(retLog, now)
  /\ UNCHANGED <<binary, auxVars, engVars, fmVars, now, burst, onlyWait>>

CallSetRateOf(n) ==
  /\ SetRate(n)
  /\ onlyWait' = FALSE
  /\ UNCHANGED <<binary, auxVars, engVars, fmVars, now, callerPc, callTime, burst, retLog>>

CallSetRate == \E n \in {0, 1, 2 * DefaultRate} : CallSetRateOf(n)

CallReset ==
  /\ Reset
  /\ onlyWait' = FALSE
  /\ UNCHANGED <<binary, auxVars, engVars, fmVars, now, callerPc, callTime, burst, retLog>>

\* Time passes: no goroutine is kept from running, so a caller is in Wait
\* only while rl.mu is held by a sleeper, and a sleeper wakes when due.
RLTick ==
  /\ now < MaxTime
  /\ \A c \in Callers : callerPc[c] = "called" => muHolder # None
  /\ muHolder # None => now < wakeAt
  /\ now' = now + 1
  /\ UNCHANGED <<binary, auxVars, engVars, fmVars, rlVars, callerVars>>

RLNext ==
  \/ \E c \in Callers : CallWait(c)
  \/ \E c \in Callers : CallerTake(c)
  \/ \E c \in Callers : CallerSleep(c)
  \/ \E c \in Callers : CallerWake(c)
  \/ CallSetRate
  \/ CallReset
  \/ RLTick

SpecRL == RLInit /\ [][RLNext]_vars

\* The limiter under every rate up to MaxRate: SetRate is called, with any
\* argument from 0 to MaxRate, on a limiter built with any such rate and
\* drawn on by one caller of Wait.
RateArgs == 0..MaxRate

RateTick ==
  /\ now < RateMaxTime
  /\ RLTick

RateNext ==
  \/ CallWait(1)
  \/ CallerTake(1)
  \/ CallerSleep(1)
  \/ CallerWake(1)
  \/ \E n \in RateArgs : CallSetRateOf(n)
  \/ RateTick

SpecRate == RLInitOf(1..MaxRate) /\ [][RateNext]_vars

\* The limiter as the monolith leaves it: main.go does not use it.
RLStart ==
  /\ LET r == NewRateLimiter(DefaultRate, 0)
     IN  /\ capacity = r.capacity
         /\ tokens = r.tokens
         /\ lastTime = r.lastTime
  /\ muHolder = None
  /\ wakeAt = 0
  /\ callerPc = [c \in Callers |-> "idle"]
  /\ callTime = [c \in Callers |-> -1]
  /\ burst = TRUE
  /\ retLog = <<>>
  /\ onlyWait = TRUE

EngInit ==
  /\ binary = "monolith"
  /\ now = 0
  /\ RLStart
  /\ EngStart
  /\ FMStart
  /\ CacheStart
  /\ UtilStart
  /\ HandlerStart
  /\ ParseStart
  /\ HttpStart
  /\ NewsStart

\* The cache alone: NewCache(CacheDuration), nothing stored yet.
CacheInit ==
  /\ binary = "cache"
  /\ now = 0
  /\ RLStart
  /\ EngStart
  /\ FMStart
  /\ CacheStart
  /\ UtilStart
  /\ HandlerStart
  /\ ParseStart
  /\ HttpStart
  /\ NewsStart

SpecCache == CacheInit /\ [][CacheNext]_vars

\* The engine with pages and filter requests served meanwhile.
SpecFilter == EngInit /\ [][FilterNext]_vars

\* GenerateID alone.
UtilInit ==
  /\ binary = "utils"
  /\ now = 0
  /\ RLStart
  /\ EngStart
  /\ FMStart
  /\ CacheStart
  /\ UtilStart
  /\ HandlerStart
  /\ ParseStart
  /\ HttpStart
  /\ NewsStart

SpecUtil == UtilInit /\ [][UtilNext]_vars

\* The timestamp parsers alone.
ParseInit ==
  /\ binary = "dates"
  /\ now = 0
  /\ RLStart
  /\ EngStart
  /\ FMStart
  /\ CacheStart
  /\ UtilStart
  /\ HandlerStart
  /\ ParseStart
  /\ HttpStart
  /\ NewsStart

SpecParse == ParseInit /\ [][ParseNext]_vars

\* GetNews alone, on every stored list of up to MaxStored items.
GetNewsInit ==
  /\ binary = "news"
  /\ now = 0
  /\ RLStart
  /\ EngStart
  /\ FMStart
  /\ CacheStart
  /\ UtilStart
  /\ HandlerStart
  /\ ParseStart
  /\ HttpStart
  /\ NewsStartWith(Stores)

SpecGetNews == GetNewsInit /\ [][GetNewsNext]_vars

\* filterHandler alone, on snapshots of every mix of sources.
SnapshotInit ==
  /\ binary = "filter"
  /\ now = 0
  /\ RLStart
  /\ EngStart
  /\ FMStart
  /\ CacheStart
  /\ UtilStart
  /\ HandlerStart
  /\ ParseStart
  /\ HttpStart
  /\ NewsStart

SpecSnapshot == SnapshotInit /\ [][SnapshotNext]_vars

SpecEngine == EngInit /\ [][EngNext]_vars

\* The engine, the status of every response in view.
StatusTick == Tick(StatusMaxTime)

StatusNext ==
  \/ CycleStart
  \/ \E s \in Sources : StatusFetchDone(s)
  \/ Publish
  \/ BroadcastRead
  \/ BroadcastDone
  \/ Sweep
  \/ StatusTick

SpecStatus == EngInit /\ [][StatusNext]_vars

SpecHub == EngInit /\ [][HubNext]_vars

SpecSlow == EngInit /\ [][SlowNext]_vars

\* The engine with one subscriber whose peer may stall and resume, over a
\* horizon long enough for a cycle to start late, just before the next tick.
LateTick == Tick(LateMaxTime)

\* The goroutine of source s when only the first source can be reached.
LateFetchDone(s) ==
  FetchDoneOf(s, IF s = 1 THEN {FetchError, [ok |-> TRUE, items |-> DocBreaking]}
                 ELSE {FetchError})

LateNext ==
  \/ CycleStart
  \/ \E s \in Sources : LateFetchDone(s)
  \/ Publish
  \/ BroadcastRead
  \/ BroadcastSend(1)
  \/ BroadcastDone
  \/ Sweep
  \/ WSConnect(1)
  \/ WSInitialRead(1)
  \/ WSInitialSend(1)
  \/ PeerStalls(1)
  \/ PeerResumes(1)
  \/ LateTick

SpecLate == EngInit /\ [][LateNext]_vars

SpecRead == EngInit /\ [][ReadNext]_vars

\* --------------------------------------------- part_005: feed.FeedManager

\* The FeedManager's clock stops at FMMaxTime.
FMMaxTime == 5

\* config.MaxNewsItems: 1000 by default, 3 here.
MaxNewsItems == 3

\* config.PollInterval (5 minutes): 5 ticks, longer than the limiter's
\* interval as in the source.
PollInterval == 5

\* http.StatusOK.
StatusOK == 200

\* What a source may answer with: a status, and a body holding a feed
\* document of entries (named by their GUID).
Responses ==
  {[status |-> st, body |-> b] : st \in {StatusOK, 500}, b \in {<<>>, <<1, 2>>}}

\* FeedManager.fetchRSSFeed for source s in cycle n: (nil, err) on a status
\* other than 200, else one NewsItem per entry of the document.
FeedManager_fetchRSSFeed(s, resp, n) ==
  IF resp.status # StatusOK
  THEN [err |-> "unexpected status code", items |-> <<>>]
  ELSE [err |-> "",
        items |-> [i \in 1..Len(resp.body) |->
                     [Source |-> s, ID |-> resp.body[i], Cycle |-> n]]]

\* A merge that does not cut.
MergeNewsUncut(all, old) == all \o old

\* UpdateAllFeeds's merge: fm.news = append(allNews, fm.news...), cut to
\* MaxNewsItems.
MergeNews(all, old) ==
  LET joined == all \o old
  IN  IF Len(joined) > MaxNewsItems THEN SubSeq(joined, 1, MaxNewsItems)
      ELSE joined

\* UpdateAllFeeds, its head: Start calls it once and then on every tick of
\* its ticker.  One goroutine is started per enabled source.
\* UpdateAllFeeds's head without the test of source.Enabled.
FMUpdateStartAll ==
  /\ binary = "feed"
  /\ fmPhase = "idle"
  /\ IF fmTicker THEN now >= fmNextPoll ELSE fmCycle = 0
  /\ fmPhase' = "updating"
  /\ fmAll' = <<>>
  /\ fmPc' = [s \in Sources |-> "called"]
  /\ fmResp' = [s \in Sources |-> NoResponse]
  /\ fmCycle' = fmCycle + 1
  /\ fmNextPoll' = IF fmTicker THEN fmNextPoll + PollInterval ELSE fmNextPoll
  /\ UNCHANGED <<fmStore, fmFeeds, fmTicker>>
  /\ UNCHANGED <<binary, auxVars, now, rlVars, callerVars, engVars>>

FMUpdateStart ==
  /\ binary = "feed"
  /\ fmPhase = "idle"
  /\ IF fmTicker THEN now >= fmNextPoll ELSE fmCycle = 0
  /\ fmPhase' = "updating"
  /\ fmAll' = <<>>
  /\ fmPc' = [s \in Sources |-> IF feedEnabled[s] THEN "called" ELSE "none"]
  /\ fmResp' = [s \in Sources |-> NoResponse]
  /\ fmCycle' = fmCycle + 1
  /\ fmNextPoll' = IF fmTicker THEN fmNextPoll + PollInterval ELSE fmNextPoll
  /\ UNCHANGED <<fmStore, fmFeeds, fmTicker>>
  /\ UNCHANGED <<binary, auxVars, now, rlVars, callerVars, engVars>>

\* The goroutine of source s in fm.rateLimiter.Wait(): it finds a token.
FMWaitTake(s) ==
  /\ binary = "feed"
  /\ fmPc[s] = "called"
  /\ WaitTake
  /\ fmPc' = [fmPc EXCEPT ![s] = "fetching"]
  /\ UNCHANGED <<fmStore, fmFeeds, fmPhase, fmAll, fmResp, fmCycle, fmTickerVars>>
  /\ UNCHANGED <<binary, auxVars, now, callerVars, engVars>>

\* The same, finding the bucket empty: it sleeps holding rl.mu.
FMWaitSleep(s) ==
  /\ binary = "feed"
  /\ fmPc[s] = "called"
  /\ WaitSleep(s)
  /\ fmPc' = [fmPc EXCEPT ![s] = "sleeping"]
  /\ UNCHANGED <<fmStore, fmFeeds, fmPhase, fmAll, fmResp, fmCycle, fmTickerVars>>
  /\ UNCHANGED <<binary, auxVars, now, callerVars, engVars>>

\* The same, when its sleep is over: Wait returns.
FMWaitWake(s) ==
  /\ binary = "feed"
  /\ fmPc[s] = "sleeping"
  /\ WaitWake(s)
  /\ fmPc' = [fmPc EXCEPT ![s] = "fetching"]
  /\ UNCHANGED <<fmStore, fmFeeds, fmPhase, fmAll, fmResp, fmCycle, fmTickerVars>>
  /\ UNCHANGED <<binary, auxVars, now, callerVars, engVars>>

\* The rest of the goroutine of source s: fetchRSSFeed returns; on an error
\* LastError is set, else the items are appended to allNews under mu and
\* LastFetched and LastError are updated.
FMFetchDone(s) ==
  /\ binary = "feed"
  /\ fmPc[s] = "fetching"
  /\ \E resp \in Responses :
       LET r == FeedManager_fetchRSSFeed(s, resp, fmCycle)
       IN  /\ fmResp' = [fmResp EXCEPT ![s] = resp]
           /\ IF r.err # ""
              THEN /\ feedError' = [feedError EXCEPT ![s] = r.err]
                   /\ UNCHANGED <<fmAll, feedFetched>>
              ELSE /\ fmAll' = fmAll \o r.items
                   /\ feedFetched' = [feedFetched EXCEPT ![s] = now]
                   /\ feedError' = [feedError EXCEPT ![s] = ""]
  /\ fmPc' = [fmPc EXCEPT ![s] = "done"]
  /\ UNCHANGED <<fmStore, feedEnabled, fmPhase, fmCycle, fmTickerVars>>
  /\ UNCHANGED <<binary, auxVars, now, rlVars, callerVars, engVars>>

\* An end of UpdateAllFeeds that merges and stamps whatever was gathered.
FMUpdateEndAlways ==
  /\ binary = "feed"
  /\ fmPhase = "updating"
  /\ \A s \in Sources : fmPc[s] \in {"none", "done"}
  /\ fmNews' = MergeNews(fmAll, fmNews)
  /\ fmLastUpdate' = now
  /\ fmTotal' = Len(fmNews')
  /\ fmPhase' = "idle"
  /\ IF fmTicker THEN UNCHANGED fmTickerVars
     ELSE /\ fmTicker' = TRUE
          /\ fmNextPoll' = now + PollInterval
  /\ UNCHANGED <<fmFeeds, fmAll, fmPc, fmResp, fmCycle>>
  /\ UNCHANGED <<binary, auxVars, now, rlVars, callerVars, engVars>>

\* UpdateAllFeeds after wg.Wait: when allNews is not empty it is merged into
\* fm.news under fm.mu and the statistics are refreshed.  When the first
\* call returns, Start creates its ticker.
FMUpdateEnd ==
  /\ binary = "feed"
  /\ fmPhase = "updating"
  /\ \A s \in Sources : fmPc[s] \in {"none", "done"}
  /\ IF Len(fmAll) > 0
     THEN /\ fmNews' = MergeNews(fmAll, fmNews)
          /\ fmLastUpdate' = now
          /\ fmTotal' = Len(fmNews')
     ELSE UNCHANGED fmStore
  /\ fmPhase' = "idle"
  /\ IF fmTicker THEN UNCHANGED fmTickerVars
     ELSE /\ fmTicker' = TRUE
          /\ fmNextPoll' = now + PollInterval
  /\ UNCHANGED <<fmFeeds, fmAll, fmPc, fmResp, fmCycle>>
  /\ UNCHANGED <<binary, auxVars, now, rlVars, callerVars, engVars>>

\* Time passes: while Start waits for its ticker, or while a goroutine
\* sleeps in Wait and every other one is done or queued on rl.mu.
FMTick ==
  /\ binary = "feed"
  /\ now < FMMaxTime
  /\ IF fmPhase = "idle" THEN fmTicker /\ now < fmNextPoll
     ELSE /\ muHolder # None
          /\ now < wakeAt
          /\ \A s \in Sources : fmPc[s] # "fetching"
  /\ now' = now + 1
  /\ UNCHANGED <<binary, auxVars, rlVars, callerVars, engVars, fmVars>>

FMNext ==
  \/ FMUpdateStart
  \/ \E s \in Sources : FMWaitTake(s)
  \/ \E s \in Sources : FMWaitSleep(s)
  \/ \E s \in Sources : FMWaitWake(s)
  \/ \E s \in Sources : FMFetchDone(s)
  \/ FMUpdateEnd
  \/ FMTick

\* main with a registry whose Enabled flags are drawn from registries.
FMInitWith(registries) ==
  /\ binary = "feed"
  /\ now = 0
  /\ \E rpm \in RateLimits :
       LET r == NewRateLimiter(rpm, 0)
       IN  /\ capacity = r.capacity
           /\ tokens = r.tokens
           /\ lastTime = r.lastTime
  /\ muHolder = None
  /\ wakeAt = 0
  /\ callerPc = [c \in Callers |-> "idle"]
  /\ callTime = [c \in Callers |-> -1]
  /\ burst = TRUE
  /\ retLog = <<>>
  /\ onlyWait = TRUE
  /\ EngStart
  /\ \E enabled \in registries : FMStartWith(enabled)
  /\ CacheStart
  /\ UtilStart
  /\ HandlerStart
  /\ ParseStart
  /\ HttpStart
  /\ NewsStart

FMInit == FMInitWith({[s \in Sources |-> TRUE]})

SpecFM == FMInit /\ [][FMNext]_vars

\* The FeedManager over every registry of enabled and disabled sources.
SpecFeeds == FMInitWith([Sources -> BOOLEAN]) /\ [][FMNext]_vars

\* Either server of the repository.
Init == EngInit \/ FMInit
Next == EngNext \/ FMNext
Spec == Init /\ [][Next]_vars

\* C1: in every reachable state the item store holds at most the retention
\* cap: len(currentNews) <= MAX_TOTAL_ARTICLES in the monolith, whatever
\* cycles and sweeps have run, and len(fm.news) <= MaxNewsItems in the
\* FeedManager, whatever UpdateAllFeeds calls have run.
C1_StoreWithinCap ==
  /\ binary = "monolith" =>
       /\ Len(currentNews) <= MAX_TOTAL_ARTICLES
       /\ phase # "fetching" => Len(allNews) <= MAX_TOTAL_ARTICLES
  /\ binary = "feed" => Len(fmNews) <= MaxNewsItems

\* C1's case: a second UpdateAllFeeds has returned and the store is full.
C1_StoreFull ==
  /\ binary = "feed"
  /\ fmPhase = "idle"
  /\ fmCycle >= 2
  /\ Len(fmNews) = MaxNewsItems

C6_FailuresCostOnlyTheirOwnItems ==
  /\ (phase = "fetching" /\ \A s \in Sources : task[s] = "done") => ENABLED Publish
  /\ (cycleNo > 0 /\ phase # "fetching") =>
       \A s \in Sources :
         SelectSeq(allNews, LAMBDA it : it.Source = s) =
           IF ~fetched[s].ok THEN <<>>
           ELSE ProcessItems(<<>>, s, fetched[s].items, 1,
                             Min(Len(fetched[s].items), MAX_ARTICLES_PER_SOURCE),
                             procTime[s], cycleNo)

\* C6's case: a cycle has published with one source failed and another
\* source's items in the store.
C6_PublishedDespiteFailure ==
  /\ phase = "published"
  /\ \E s \in Sources : ~fetched[s].ok
  /\ \E s \in Sources : fetched[s].ok /\ \E i \in 1..Len(currentNews) :
                                          currentNews[i].Source = s

\* C2: every read of the store by a reader sees a list, analytics and
\* timestamp published together; in particular the analytics a reader
\* copied are those of the item list it copied with them (their total is
\* the number of items it can see).
C2_ReadsArePublishedTogether ==
  /\ \A c \in Conns : connData[c].Analytics = generateAnalytics(connData[c].Items)
  /\ bcastData.Analytics = generateAnalytics(bcastData.Items)

\* C7: after an UpdateAllFeeds in which a source answered with status 500,
\* the store holds no item of that source, the source's LastError is not
\* empty, and every other source that answered has its items of the cycle
\* in the store.
C7_FailedSourceAbsentAfterUpdate ==
  (fmPhase = "idle" /\ fmCycle > 0) =>
    \A s \in Sources :
      fmResp[s].status = 500 =>
        /\ \A i \in 1..Len(fmNews) : fmNews[i].Source # s
        /\ feedError[s] # ""
        /\ \A o \in Sources \ {s} :
             fmResp[o].status = StatusOK =>
               SelectSeq(fmNews, LAMBDA it : it.Source = o /\ it.Cycle = fmCycle)
                 = FeedManager_fetchRSSFeed(o, fmResp[o], fmCycle).items

\* C8: whenever handleWebSocket reads the store for a new connection's first
\* message, at any point of a cycle, it reads the last published snapshot:
\* the items of the last publish (less those the sweeper has dropped), with
\* its analytics and its timestamp.
C8_FirstMessageIsLastPublished ==
  [][\A c \in Conns :
       WSInitialRead(c) =>
         [i \in 1..Len(connData'[c].Items) |-> connData'[c].Items[i].PubDate] = shown]_vars

\* C9: every publish is followed by exactly one broadcastUpdate, which
\* reads the store after the publish replaced it; the subscriber set does
\* not change during the broadcast but by the broadcast's own removals; and
\* when the broadcast returns, a send of the snapshot it read has been
\* attempted on every subscriber of the set: the send failed or the
\* snapshot is in the subscriber's inbox.
C9_OneBroadcastPerPublish ==
  /\ phase \in {"idle", "fetching", "sending"} => nBroadcast = nPublish
  /\ phase = "published" => (nPublish = nBroadcast + 1 /\ ENABLED BroadcastRead)
  /\ phase = "sending" =>
       /\ bcastData.LastUpdated = lastFetchTime
       /\ bcastData.Analytics = liveAnalytics
       /\ bcastData.Sentiment = liveSentiment
       /\ clients = bcastSet \ bcastFailed
  /\ (phase = "idle" /\ nBroadcast > 0) =>
       \A c \in bcastSet :
         \/ c \in bcastFailed
         \/ \E k \in 1..Len(inbox[c]) :
              inbox[c][k] = [kind |-> "broadcast", n |-> nBroadcast, data |-> bcastData]

\* C9's case: a broadcast over every connection has returned, each holding
\* the snapshot of that broadcast.
C9_BroadcastReachedAll ==
  /\ phase = "idle"
  /\ bcastSet = Conns
  /\ \A c \in Conns : \E k \in 1..Len(inbox[c]) :
       /\ inbox[c][k].kind = "broadcast"
       /\ inbox[c][k].n = nBroadcast
       /\ Len(inbox[c][k].data.Items) > 0

\* C10: a subscriber whose send failed is closed and out of the subscriber
\* set; the broadcast goes on to the subscribers it has not visited; when it
\* returns every other subscriber of the set has the broadcast's snapshot;
\* and a removed subscriber has no message of the current broadcast, so it
\* is sent no broadcast after its removal.
C10_FailedSendRemovesOnlyThatSubscriber ==
  /\ dropped \cap clients = {}
  /\ bcastFailed \subseteq dropped
  /\ (phase = "sending" /\ bcastPending # {}) =>
       \A c \in bcastPending : c \notin dropped /\ ENABLED BroadcastSend(c)
  /\ (phase = "idle" /\ nBroadcast > 0) =>
       \A c \in bcastSet \ bcastFailed :
         \E k \in 1..Len(inbox[c]) :
           inbox[c][k] = [kind |-> "broadcast", n |-> nBroadcast, data |-> bcastData]
  /\ \A c \in dropped : \A k \in 1..Len(inbox[c]) :
       inbox[c][k].kind = "broadcast" => inbox[c][k].n < nBroadcast

\* C10's case: a broadcast has returned in which the send to one subscriber
\* failed and another subscriber received the snapshot; and a later
\* broadcast has run after a subscriber was removed.
C10_OneFailedOneServed ==
  /\ phase = "idle"
  /\ bcastFailed # {}
  /\ bcastSet \ bcastFailed # {}
  /\ nBroadcast >= 2

\* C11: a subscriber whose peer never accepts data is dropped, not waited
\* on: while broadcastUpdate is in its loop it can always go on, by a send
\* to a subscriber it has yet to visit or by returning, so that fetchAllNews
\* returns and the next cycle can start.
C11_BroadcastNeverWaits ==
  phase = "sending" =>
    \/ ENABLED BroadcastDone
    \/ \E c \in bcastPending : ENABLED BroadcastSend(c)

\* C12: while broadcastUpdate is sending, a connection that handleWebSocket
\* has to register can be added to the subscriber set at once.
C12_ConnectDuringBroadcast ==
  \A c \in Conns :
    (/\ phase = "sending"
     /\ bcastPending # {}
     /\ connPc[c] = "none"
     /\ \A d \in Conns : d < c => connPc[d] # "none")
    => ENABLED WSConnect(c)

\* C13: no reader modifies the store: the item list, and every field of
\* every stored item, change only in the steps that hold newsMutex.Lock
\* (the clearing and the publish of fetchAllNews, and the sweep).
C13_OnlyLockedStepsChangeTheStore ==
  [][currentNews' # currentNews => (CycleStart \/ Publish \/ Sweep)]_vars

\* C14: under Wait calls alone, no caller is kept in Wait for longer than
\* interval/capacity: a call that has not returned was made at most that
\* long ago.
C14_WaitBounded ==
  onlyWait =>
    \A c \in Callers :
      callerPc[c] \in {"called", "sleeping"} =>
        now - callTime[c] <= RLInterval \div capacity

\* C15: SetRate(n) sets the capacity to n (to the default rate for n <= 0),
\* which GetRate then returns, and leaves floor(tokens * n / capacity)
\* tokens, capacity and tokens being those before the call.
C15_SetRateScalesByFloor ==
  [][\A n \in RateArgs :
       CallSetRateOf(n) =>
         LET rpm == IF n <= 0 THEN DefaultRate ELSE n
         IN  /\ capacity' = rpm
             /\ tokens' = (tokens * rpm) \div capacity]_vars

\* C16: a Get returns (value, true) only for an entry it read whose expiry
\* has not passed when it looks at the clock; for an entry whose expiry has
\* passed it goes on to return (nil, false) with the key removed, whether
\* or not cleanup has run.
C16_GetNeverReturnsExpired ==
  [][\A g \in Getters :
       /\ (getPc[g] = "read" /\ getPc'[g] = "idle" /\ getRes'[g].ok)
            => /\ getItem[g] # Absent
               /\ now <= getItem[g].Expiration
               /\ getRes'[g].Value = getItem[g].Value
       /\ (getPc[g] = "read" /\ getPc'[g] # "read"
              /\ getItem[g] # Absent /\ now > getItem[g].Expiration)
            => getPc'[g] = "deleting"
       /\ (getPc[g] = "deleting" /\ getPc'[g] = "idle")
            => /\ ~getRes'[g].ok
               /\ getRes'[g].Value = 0
               /\ cacheItems'[getKey[g]] = Absent]_vars

\* C16 witness: a Get has found an entry past its expiry before cleanup ever
\* ran, has returned (nil, false), and the key is gone.
C16_ExpiredBeforeAnySweep ==
  \E g \in Getters :
    /\ getPc[g] = "idle"
    /\ ~getRes[g].ok
    /\ getRes[g].entry > 0
    /\ getRes[g].at > getRes[g].Expiration
    /\ cacheItems[getKey[g]] = Absent
    /\ nextCleanup = CleanupInterval

\* C17: the expiry of every stored entry is the instant of the Set that
\* stored it plus the duration, whatever Gets have run since, and no Get
\* returns a value later than that instant.
C17_ExpiryFixedAtSet ==
  /\ \A k \in Keys :
       cacheItems[k] # Absent =>
         cacheItems[k].Expiration = storedAt[cacheItems[k].Value] + CacheDuration
  /\ \A g \in Getters :
       getRes[g].ok => getRes[g].at <= storedAt[getRes[g].Value] + CacheDuration

\* C17 witness: one goroutine was given an entry while it was fresh, and a
\* later Get of the same entry, never stored again, was refused.
C17_HitThenRefused ==
  \E g, h \in Getters :
    /\ getRes[g].ok
    /\ ~getRes[h].ok
    /\ getRes[h].entry = getRes[g].Value
    /\ getRes[h].at > storedAt[getRes[h].entry] + CacheDuration
    /\ getRes[g].at < getRes[h].at

\* C18: two calls of GenerateID with the same (guid, link, title) return
\* the same id, whenever they are made.
C18_IdDependsOnEntryOnly ==
  (/\ idPrev # NoCall
   /\ idLast.guid = idPrev.guid
   /\ idLast.link = idPrev.link
   /\ idLast.title = idPrev.title)
  => idLast.id = idPrev.id

\* C19: the body filterHandler answers with is the subsequence, in order,
\* of the snapshot it read, made of the items that meet every criterion of
\* the query (source id, category, sentiment label, nifty50 only; an empty
\* criterion met by all), and the handler leaves the store as it was.
C19_FilterIsTheMatchingSubsequence ==
  [][(filtPc' # filtPc \/ filtResp' # filtResp) =>
       /\ currentNews' = currentNews
       /\ filtPc = "read" =>
            filtResp' =
              SelectSeq(filtItems,
                        LAMBDA item :
                          /\ filtQuery.source = ""
                               \/ SourceIDs[item.Source] = filtQuery.source
                          /\ filtQuery.category = ""
                               \/ item.Category = filtQuery.category
                          /\ filtQuery.sentiment = ""
                               \/ item.SentimentLabel = filtQuery.sentiment
                          /\ ~filtQuery.nifty50Only \/ item.HasNifty50)]_vars

\* C20: when a cycle publishes, and its sources yielded more fresh items
\* than MAX_TOTAL_ARTICLES, no fresh item that is left out of the snapshot
\* has a strictly higher priority than an item in it; and when they yielded
\* exactly that many, all of them are in the snapshot.
C20_NoDiscardedItemOutranksASnapshotItem ==
  [][Publish =>
       LET Fresh(s) == {i \in 1..Len(fetched[s].items) :
                          /\ fetched[s].items[i].Title
                          /\ fetched[s].items[i].Age <= Horizon}
           In(s, i) == \E k \in 1..Len(currentNews') :
                         /\ currentNews'[k].Source = s
                         /\ currentNews'[k].Idx = i
           yield    == Cardinality(UNION {{<<s, i>> : i \in Fresh(s)} :
                                            s \in Sources})
       IN  /\ yield > MAX_TOTAL_ARTICLES =>
                \A s \in Sources : \A i \in Fresh(s) :
                  ~In(s, i) =>
                    \A k \in 1..Len(currentNews') :
                      calculatePriority(s, fetched[s].items[i],
                                        fetched[s].items[i].Age)
                        <= currentNews'[k].Priority
           /\ yield = MAX_TOTAL_ARTICLES =>
                \A s \in Sources : \A i \in Fresh(s) : In(s, i)]_vars

\* C21: the store never holds more than MAX_ARTICLES_PER_SOURCE items of
\* one source, in the list a cycle publishes and in what the sweeper leaves
\* of it.
C21_AtMostLimitPerSource ==
  \A s \in Sources :
    Len(SelectSeq(currentNews, LAMBDA item : item.Source = s))
      <= MAX_ARTICLES_PER_SOURCE

\* C21 witness: a source answered with more fresh entries than the limit
\* and the published list holds exactly the limit of them.
C21_SourceCutToLimit ==
  \E s \in Sources :
    /\ phase # "fetching"
    /\ fetched[s].ok
    /\ Len(SelectSeq(fetched[s].items,
                     LAMBDA e : e.Title /\ e.Age <= Horizon))
         > MAX_ARTICLES_PER_SOURCE
    /\ Len(SelectSeq(currentNews, LAMBDA item : item.Source = s))
         = MAX_ARTICLES_PER_SOURCE

\* C22: once a cycle has put its items in the store, the store holds items
\* of that cycle only: in the monolith every item of currentNews is of the
\* last cycle that published, and in the FeedManager, after an
\* UpdateAllFeeds that collected items, every item of fm.news is of that
\* call.
C22_StoreHoldsOneCycleOnly ==
  /\ binary = "monolith" =>
       \A i \in 1..Len(currentNews) :
         currentNews[i].Cycle = IF phase = "fetching" THEN cycleNo - 1 ELSE cycleNo
  /\ (binary = "feed" /\ fmPhase = "idle" /\ Len(fmAll) > 0) =>
       \A i \in 1..Len(fmNews) : fmNews[i].Cycle = fmCycle

\* C23: the store is ranked: of two adjacent items the first has the higher
\* priority, or the same priority and a publish time no earlier.
C23_StoreIsRanked ==
  \A i \in 1..(Len(currentNews) - 1) :
    \/ currentNews[i].Priority > currentNews[i + 1].Priority
    \/ /\ currentNews[i].Priority = currentNews[i + 1].Priority
       /\ currentNews[i].PubDate >= currentNews[i + 1].PubDate

\* C24: the order of the list a cycle publishes does not depend on the
\* order in which its fetch goroutines finished: it is the order published
\* when the same goroutines, with the same answers at the same instants,
\* finish in the order of the sources.
C24_PublishedOrderIgnoresFinishOrder ==
  [][Publish =>
       ((\A s, r \in Sources : s < r => procTime[s] <= procTime[r])
          => currentNews' \in Trim(CollectInOrder(NumSources, fetched,
                                                  procTime, cycleNo)))]_vars

\* C25: a tick of the refresh ticker that falls while fetch tasks of the
\* running cycle are still outstanding starts a new cycle all the same.
C25_TickStartsCycleWhileTasksOutstanding ==
  (tickers /\ now >= nextRefresh /\ \E s \in Sources : task[s] = "running")
    => ENABLED CycleStart

\* C26: in every UpdateAllFeeds cycle the goroutine of an enabled source
\* goes from its start through one Wait (which returns at once, or after a
\* sleep of that same goroutine) to its fetch and then to its end, the
\* step that starts the fetch being the return of its Wait; a response is
\* received only by a goroutine that is fetching; a disabled source has no
\* goroutine, so it is neither rate-limited nor fetched.
C26_FetchFollowsOneWait ==
  [][\A s \in Sources :
       /\ fmPc'[s] # fmPc[s] =>
            /\ <<fmPc[s], fmPc'[s]>> \in
                 {<<"none", "called">>, <<"done", "called">>,
                  <<"called", "fetching">>, <<"called", "sleeping">>,
                  <<"sleeping", "fetching">>, <<"fetching", "done">>}
            /\ fmPc'[s] = "fetching" =>
                 /\ muHolder \in {None, s}
                 /\ muHolder' = None
                 /\ lastTime' = now
                 /\ tokens' >= 0
                 /\ \A r \in Sources \ {s} : fmPc'[r] = fmPc[r]
            /\ fmPc'[s] = "sleeping" => muHolder = None /\ muHolder' = s
       /\ fmResp'[s] # fmResp[s] /\ fmResp'[s] # NoResponse => fmPc[s] = "fetching"
       /\ ~feedEnabled[s] =>
            /\ fmPc'[s] = "none"
            /\ fmResp'[s] = NoResponse
            /\ muHolder' # s]_vars

\* A cycle has ended in which an enabled source was fetched after its Wait
\* while a disabled source was left alone.
C26_EnabledFetchedDisabledSkipped ==
  /\ fmPhase = "idle"
  /\ fmCycle >= 1
  /\ \E s, r \in Sources :
       /\ feedEnabled[s] /\ fmPc[s] = "done" /\ fmResp[s] # NoResponse
       /\ ~feedEnabled[r] /\ fmPc[r] = "none" /\ fmResp[r] = NoResponse

\* C27: when a Wait that slept on an empty bucket returns, the bucket
\* holds what it held when the sleep began, plus the tokens that
\* elapsed/interval * capacity credits for the time since the bucket's
\* clock was last set (never more than capacity), minus the one token this
\* Wait consumes.
C27_SleepingWaitConsumesAccruedToken ==
  [][(muHolder # None /\ muHolder' = None) =>
       tokens' = Min(tokens + (capacity * (now - lastTime)) \div RLInterval,
                     capacity) - 1]_vars

\* C28: a run of performMemoryCleanup at time now leaves the store holding
\* exactly its items with PubDate later than now - 24 h, in their old
\* relative order: the j-th item afterwards is the j-th fresh item before,
\* and the number evicted is the difference of the two lengths.
C28_SweepKeepsExactlyTheFresh ==
  [][(tickers /\ nextSweep' # nextSweep) =>
       LET fresh == {i \in 1..Len(currentNews) :
                       currentNews[i].PubDate > now - Horizon}
           stale == (1..Len(currentNews)) \ fresh
       IN  /\ Len(currentNews') = Cardinality(fresh)
           /\ Len(currentNews) - Len(currentNews') = Cardinality(stale)
           /\ \A j \in 1..Len(currentNews') :
                \E i \in fresh :
                  /\ Cardinality({k \in fresh : k <= i}) = j
                  /\ currentNews'[j] = currentNews[i]]_vars

\* A sweep has evicted part of the published list and kept the rest.
C28_SweepEvictedSome ==
  /\ swept
  /\ Len(currentNews) > 0
  /\ Len(currentNews) < liveAnalytics.TotalArticles
  /\ \A i \in 1..Len(currentNews) : currentNews[i].PubDate > now - Horizon - SweepInterval

\* C29: whenever a publish timestamp is parsed by no layout and the current
\* time is used instead, the fallback is logged: the input of the last call,
\* if that call fell back to now, is the last record of the log, whatever
\* the input string, the empty string included.
C29_FallbackIsLogged ==
  parseLast.fallback =>
    /\ Len(parseLog) > 0
    /\ parseLog[Len(parseLog)] = TrimSpace(parseLast.in)

\* C30: a fetch whose response has a status outside 200..299 is a source
\* error, whatever the body: fetchRSSFeed returns an error and the source
\* adds no item to the list being collected; in the FeedManager the source's
\* LastError is set and its allNews is left as it was.
C30_BadStatusYieldsNoItems ==
  [][\A s \in Sources :
       /\ (task[s] = "running" /\ task'[s] = "done"
           /\ httpResp'[s].status \notin 200..299)
            => (fetched'[s] = FetchError /\ allNews' = allNews)
       /\ (fmPc[s] = "fetching" /\ fmPc'[s] = "done"
           /\ fmResp'[s].status \notin 200..299)
            => (feedError'[s] # "" /\ fmAll' = fmAll)]_vars

\* C31: under source = BS_ALL with the other criteria empty, filterHandler
\* returns the items of the snapshot whose source is one of the registry's
\* six BS_ sources, and only those.
C31_BSAllReturnsEveryBSSource ==
  (binary = "filter" /\ filtQuery = Query("BS_ALL", "", "", FALSE))
    => filtResp = SelectSeq(filtItems, LAMBDA item : item.Source \in BSSources)

\* C32: a pass of the cache's sweep removes every entry whose expiry
\* instant has passed and leaves every other entry as it was, key, value
\* and expiry; it adds nothing.
C32_SweepRemovesExactlyTheExpired ==
  [][(nextCleanup' # nextCleanup) =>
       \A k \in Keys :
         cacheItems'[k] =
           IF cacheItems[k] # Absent /\ cacheItems[k].Expiration < now
           THEN Absent ELSE cacheItems[k]]_vars

\* A pass of the sweep has run since an entry was stored, and the entry,
\* not expired then, is still there.
C32_EntrySurvivedAPass ==
  /\ nextCleanup > CleanupInterval
  /\ \E k \in Keys :
       /\ cacheItems[k] # Absent
       /\ storedAt[cacheItems[k].Value] < CleanupInterval

\* C33: the publish step writes the item list, the refresh timestamp, the
\* analytics and the sentiment in one step, and a reader's read-lock section
\* copies the four in one step in which nothing is written: a reader sees
\* all the values from before a publish or all the values it wrote.
C33_PublishIsOneStepForReaders ==
  [][/\ (nPublish' # nPublish \/ lastFetchTime' # lastFetchTime
          \/ liveAnalytics' # liveAnalytics \/ liveSentiment' # liveSentiment)
        => /\ nPublish' = nPublish + 1
           /\ currentNews' = allNews'
           /\ lastFetchTime' = now
           /\ liveAnalytics' = generateAnalytics(currentNews')
           /\ liveSentiment' = generateSentimentData(currentNews')
     /\ \A c \in Conns :
          connData'[c] # connData[c]
            => (storeVars' = storeVars /\ connData'[c] = NewsData)
     /\ bcastData' # bcastData
          => (storeVars' = storeVars /\ bcastData' = NewsData)]_vars

\* broadcastUpdate has read what a publish wrote, while a subscriber that
\* connected before that publish holds what was there before it.
C33_ReadersOnBothSidesOfAPublish ==
  /\ phase = "sending"
  /\ bcastData.Items # <<>>
  /\ bcastData.LastUpdated = lastFetchTime
  /\ bcastData.Analytics = generateAnalytics(bcastData.Items)
  /\ \E c \in Conns :
       /\ connPc[c] \in {"read", "open"}
       /\ connData[c].LastUpdated < lastFetchTime
       /\ connData[c].Analytics # bcastData.Analytics

\* C34: whatever the interleaving of Wait, SetRate and Reset, the limiter's
\* capacity is at least 1 and its tokens lie between 0 and the capacity.
C34_TokensWithinCapacity ==
  binary = "ratelimit" => (capacity >= 1 /\ 0 <= tokens /\ tokens <= capacity)

\* SetRate or Reset has been called on a limiter that Wait calls had
\* emptied, a caller sleeping in Wait meanwhile or since.
C34_EmptiedAndReconfigured ==
  /\ binary = "ratelimit"
  /\ ~onlyWait
  /\ Len(retLog) >= capacity
  /\ tokens = 0
  /\ \E c \in Callers : callerPc[c] = "sleeping"

\* C35: a stored value stays retrievable until its own expiry unless a
\* client calls Delete or Set on its key: an entry that has not expired
\* leaves the map only in a step of a client's Delete or Set, never in a
\* step of a Get or of the sweep.
C35_UnexpiredEntryLeavesOnlyByClient ==
  [][\A k \in Keys :
       (cacheItems[k] # Absent /\ cacheItems'[k] # cacheItems[k]
        /\ now <= cacheItems[k].Expiration)
         => (getPc' = getPc /\ nextCleanup' = nextCleanup)]_vars

\* C36: a subscriber receives snapshots in publish order: the refresh
\* timestamps of the messages one subscriber has received, the initial one
\* included, never decrease.
C36_TimestampsNeverDecrease ==
  \A c \in Conns :
    \A i, j \in 1..Len(inbox[c]) :
      i < j => inbox[c][i].data.LastUpdated <= inbox[c][j].data.LastUpdated

\* C37: the subscriber set is modified only by a goroutine that holds
\* clientsMutex exclusively, and so never while broadcastUpdate is inside
\* the read-lock section in which it iterates over the set.
C37_SetChangesOnlyUnderExclusiveLock ==
  [][clients' # clients => phase # "sending"]_vars

\* C38: a cycle starts only when none is running, and it publishes only
\* after every goroutine it started has returned; what it publishes is the
\* list its goroutines accumulated, cut to MAX_TOTAL_ARTICLES when longer:
\* for every source the items of that source in the list are exactly those
\* its goroutine appended, in their order, none lost and none twice.
C38_PublishIsWhatTheTasksAccumulated ==
  [][/\ cycleNo' # cycleNo
          => (phase = "idle" /\ \A s \in Sources : task[s] # "running")
     /\ nPublish' # nPublish
          => /\ \A s \in Sources : task[s] = "done"
             /\ \A s \in Sources :
                  SelectSeq(allNews, LAMBDA it : it.Source = s)
                    = TaskAppend(<<>>, s, fetched[s], procTime[s], cycleNo)
             /\ IF Len(allNews) <= MAX_TOTAL_ARTICLES
                THEN currentNews' = allNews
                ELSE Len(currentNews') = MAX_TOTAL_ARTICLES]_vars

\* A second cycle has published a list to which every source contributed.
C38_SecondCyclePublishedAllSources ==
  /\ phase = "published"
  /\ cycleNo >= 2
  /\ \A s \in Sources : \E i \in 1..Len(currentNews) : currentNews[i].Source = s

\* C39: an UpdateAllFeeds cycle in which every enabled source fails or
\* returns no entries leaves the stored news, the last-update time and the
\* statistics as they were: no step of the cycle before its end changes
\* them, and neither does its end when no source has given an entry.
C39_EmptyCycleLeavesTheStore ==
  [][(/\ fmPhase = "updating"
      /\ \/ fmPhase' = "updating"
         \/ \A s \in Sources :
              feedEnabled[s] => (fmResp[s].status # StatusOK \/ fmResp[s].body = <<>>))
       => fmStore' = fmStore]_vars

\* A cycle in which no source gave an entry has ended, later than the
\* update that stored the news there is.
C39_EmptyCycleAfterAFullOne ==
  /\ fmPhase = "idle"
  /\ fmCycle >= 2
  /\ fmNews # <<>>
  /\ fmLastUpdate < now
  /\ \A s \in Sources :
       /\ feedEnabled[s] => fmPc[s] = "done"
       /\ fmResp[s].status # StatusOK \/ fmResp[s].body = <<>>

\* C40: GetNews returns as total the number of stored items matching the
\* source, category and time-range criteria, and as page the matches,
\* sorted newest first, at positions offset .. offset+limit-1: none when
\* offset >= total, all from offset on when limit <= 0; the stored list is
\* left as it was.
C40_PageIsTheSliceOfTheSortedMatches ==
  gnRes # NoPage =>
    LET matches == SelectSeq(gnNews, LAMBDA item : NewsMatches(item, gnReq))
        total   == Len(matches)
        last    == IF gnReq.Limit <= 0 THEN total
                   ELSE Min(gnReq.Offset + gnReq.Limit, total)
    IN  /\ gnRes.total = total
        /\ \E p \in SortNewestFirst(matches) :
             gnRes.items = IF gnReq.Offset >= total THEN <<>>
                           ELSE SubSeq(p, gnReq.Offset + 1, last)

\* C3: under Wait calls alone, no rolling window of length interval holds
\* more than capacity returns of Wait: any capacity + 1 returns are spread
\* over at least one interval.
C3_AtMostCapacityPerWindow ==
  onlyWait =>
    \A i, j \in 1..Len(retLog) :
      (j - i >= capacity) => (retLog[j] - retLog[i] >= RLInterval)

\* C4: when all N = NumCallers > capacity Wait calls are issued at the
\* instant the limiter is created, they have all returned no earlier than
\* (N - capacity) * interval / capacity after it.
C4_BurstTakesThrottledTime ==
  (/\ onlyWait
   /\ burst
   /\ \A c \in Callers : callerPc[c] = "returned")
  => now >= (NumCallers - capacity) * (RLInterval \div capacity)

====
